---------------------------- MODULE Spec2Model ----------------------------
(***************************************************************************)
(* Model of the ingestion engine of sage-local-dms (src/dms/tasks.py and   *)
(* the resplit management commands): the Redis lock around the archive     *)
(* scan, the scan's deduplication and bundle splitting, and the page       *)
(* segmentation of bundled PDFs.                                           *)
(*                                                                         *)
(* The specifications share the module's variables; each one moves its     *)
(* own group of variables and leaves the other groups at their initial     *)
(* value:                                                                  *)
(*   SpecLock  scan_sage_archive tasks around distributed_lock             *)
(*   SpecSeg   the page loop and the materialization of the splitters      *)
(*   SpecScan  _run_sage_scan: two runs over one archive, pool workers     *)
(*   SpecRules the matching rules: auto_classify_document and the          *)
(*             reclassify_documents command                                *)
(*   SpecFiling  the filing of Documents into a personnel file: the        *)
(*             post_save handler auto_file_document, the bulk command,     *)
(*             the manual add view, PersonnelFileEntry.save                *)
(*   SpecRetention  the retention dates of a personnel file: the signal    *)
(*             handlers of src/dms/signals.py and the admin's closing      *)
(*   SpecResolve  find_employee_by_id over the Employee table              *)
(*   SpecIdentify  process_single_file from the split check to the         *)
(*             creation of the Documents: barcode extraction, employee     *)
(*             lookup, status                                              *)
(***************************************************************************)
EXTENDS Integers, Sequences, FiniteSets, TLC

VARIABLES
    \* ---- SpecLock ----
    lockKey,      \* value stored under dms:lock:sage_scanner, or NoKey
    pc,           \* pc[t]: where task invocation t stands in scan_sage_archive
    acquired,     \* acquired[t]: the local variable of distributed_lock
    yielded,      \* yielded[t]: what the with-statement bound to "acquired"
    pending,      \* pending[t]: how the with-body ended (result or exception)
    outcome,      \* outcome[t]: what the caller of the task sees
    scanJob,      \* scanJob[t]: status of the ScanJob row created by t
    created,      \* created[t]: Documents / ledger rows written by t's run
    lockLost,     \* history: t's key was removed by expiry or admin reset
    \* ---- SpecSeg ----
    splitter,     \* which splitting code runs on the PDF
    segIds,       \* segIds[p+1]: employee id decoded on page p, or NoId
    segPc,        \* position in the splitter
    page_num,     \* loop variable of the page loop
    segments,     \* segments closed so far
    current_segment,
    segIdx,       \* index of the next segment to materialize
    result,       \* split files / split Documents produced so far
    writeFailed,  \* a segment's PDF could not be written
    original,     \* status of the original Document (resplit commands)
    \* ---- SpecScan ----
    content,      \* content[f]: the bytes of archive file f (their digest)
    run,          \* number of scan runs started
    phase,        \* "idle" between runs, "pool" while the pool works
    known_paths,  \* the run's path cache
    known_hashes, \* the run's in-memory hash set (known_hashes_by_tenant)
    pcF,          \* pcF[f]: position of process_single_file(f)
    split_results,\* split_results[f]: what split_pdf_by_datamatrix returned
    split_idx,    \* split_idx[f]: next split_info to persist
    resF,         \* resF[f]: how process_single_file(f) ended in this run
    documents,    \* Document rows
    ledger,       \* ProcessedFile rows
    counters,     \* processed_count, error_count, already_processed_count
    scan_job,     \* the run's ScanJob row
    faultRuns,    \* the runs in which an I/O, database or configuration
                  \* failure occurred
    config,       \* the deployment's settings: SAGE_ARCHIVE_PATH, ENCRYPTION_KEY
    retries,      \* self.request.retries of the task that runs the scan
    task_result,  \* what the last run returned or raised to Celery
    \* ---- SpecRules ----
    rules,        \* MatchingRule rows, in the order they were registered
    document,     \* the Document the rules are applied to
    rulePc,       \* "register" until the rules were applied, then "classified"
    caller,       \* the code that applied the rules
    order,        \* the order in which the query returned the rules
    evaluated,    \* the rules whose pattern was evaluated
    applied,      \* the rule that was applied, 0 if none matched
    before,       \* the Document before the rules were applied
    \* ---- SpecFiling ----
    personnel_file, \* the employee's PersonnelFile row, or NoPersonnelFile
    docs,         \* docs[d]: Document d's employee, filing category, status
    file_entries, \* PersonnelFileEntry rows of the file
    filePc,       \* filePc[d]: position of the filing of d
    entry_number, \* entry_number[d]: self.entry_number of the unsaved entry
    fileRes,      \* fileRes[d]: how the last filing of d ended when d had
                  \* employee and filing category and no entry
    maxAssigned,  \* history: the highest entry number ever inserted
    \* ---- SpecRetention ----
    pf,           \* the PersonnelFile row: status, closed_at, retention_until
    entries,      \* its PersonnelFileEntry rows: category, created_at, document_date
    \* ---- SpecResolve ----
    employees,    \* Employee rows: employee_id (a string of characters), tenant
    raw_id,       \* the employee_id argument of find_employee_by_id
    scope,        \* its tenant argument, None for a lookup over all tenants
    db_fails,     \* the query of the lookup that raises, 0 if none does
    resolved,     \* what find_employee_by_id returned
    resolvePc,    \* "call" before the lookup, "returned" after it
    \* ---- SpecIdentify ----
    candidate,    \* the candidate file handed to process_single_file
    idPc,         \* position of process_single_file in the identification
    seg_i,        \* index of the next split_info of the split loop
    dm_result,    \* what extract_employee_from_datamatrix returned
    new_docs,     \* the Documents created from the file, as they were created
    id_errors,    \* error_count of the run
    \* ---- SpecPool ----
    submitted,    \* files submitted to the executor and not yet started
    poolPc,       \* poolPc[w]: position of pool thread w in process_single_file
    pool_hash,    \* pool_hash[w]: the local variable file_hash of thread w
    hashes_lock,  \* the thread that holds hashes_lock, Unlocked if none
    counter_lock, \* the thread that holds counter_lock, Unlocked if none
    known_hashes_by_tenant, \* the in-memory hash set of the tenant
    processed_files, \* sha256_hash of the ProcessedFile rows of the tenant
    tally,        \* processed_count, error_count, already_processed_count
    sigalrm,      \* the thread whose alarm is pending in the process, or NoAlarm
    \* ---- SpecWalk ----
    tenant_folder, \* the entry below the archive root: its name, is_dir()
    archive_file, \* the file below that entry: name, suffix, in a subfolder
    tenant_rows,  \* Tenant rows: code, is_active
    tenant_cache, \* the codes in tenant_cache
    queued_paths, \* new_file_paths: the files queued for the pool
    walkPc        \* position of the directory walk of _run_sage_scan

lockVars == <<lockKey, pc, acquired, yielded, pending, outcome, scanJob,
              created, lockLost>>

segVars == <<splitter, segIds, segPc, page_num, segments, current_segment,
             segIdx, result, writeFailed, original>>

scanVars == <<content, run, phase, known_paths, known_hashes, pcF,
              split_results, split_idx, resF, documents, ledger, counters,
              scan_job, faultRuns, config, retries, task_result>>

ruleVars == <<rules, document, rulePc, caller, order, evaluated, applied, before>>

\* the groups of the specifications that follow the ingestion core
filingVars == <<personnel_file, docs, file_entries, filePc, entry_number,
                fileRes, maxAssigned>>

retentionVars == <<pf, entries>>

coreVars == <<lockVars, segVars, scanVars>>

resolveVars == <<employees, raw_id, scope, db_fails, resolved, resolvePc>>

\* the groups of the specifications on identification
identifyVars == <<candidate, idPc, seg_i, dm_result, new_docs, id_errors>>

poolVars == <<submitted, poolPc, pool_hash, hashes_lock, counter_lock,
              known_hashes_by_tenant, processed_files, tally, sigalrm>>

walkVars == <<tenant_folder, archive_file, tenant_rows, tenant_cache,
              queued_paths, walkPc>>

extraVars == <<resolveVars, identifyVars, poolVars, walkVars>>

restVars == <<ruleVars, filingVars, retentionVars, extraVars>>

settledVars == <<coreVars, ruleVars, filingVars, retentionVars>>

vars == <<lockVars, segVars, scanVars, restVars>>

\* ------------------------------------------------------------------------
\* Bounds
\* ------------------------------------------------------------------------
MaxTasks == 2

MaxPages == 5

MaxFiles == 2

MaxRuns == 2

MaxFaults == 1

MaxRules == 2

MaxDocs == 3

MaxEntries == 2

MaxIdLen == 3

MaxSegments == 2

MaxWorkers == 2

MaxFolderLen == 9

\* ------------------------------------------------------------------------
\* Page segmentation: split_pdf_by_datamatrix (src/dms/tasks.py) and
\* resplit_bundled_pdfs --group-pages (Command._process_document)
\* ------------------------------------------------------------------------
NoId == "None"

EmployeeIds == {"A", "B"}

PageIds == EmployeeIds \cup {NoId}

Splitters == {"split_pdf_by_datamatrix", "resplit_bundled_pdfs"}

\* current_segment = {'employee_id': None, 'pages': []}
EmptySegment == [employee_id |-> NoId, pages |-> <<>>]

\* the splitter at rest (the value of its variables under the other
\* specifications)
IdleSeg ==
    /\ splitter = "split_pdf_by_datamatrix"
    /\ segIds = <<>>
    /\ segPc = "idle"
    /\ page_num = 0
    /\ segments = <<>>
    /\ current_segment = EmptySegment
    /\ segIdx = 0
    /\ result = <<>>
    /\ writeFailed = FALSE
    /\ original = "kept"

InitSeg ==
    /\ splitter \in Splitters
    /\ \E n \in 1..MaxPages : segIds \in [1..n -> PageIds]
    /\ segPc = "open"
    /\ page_num = 0
    /\ segments = <<>>
    /\ current_segment = EmptySegment
    /\ segIdx = 0
    /\ result = <<>>
    /\ writeFailed = FALSE
    /\ original = "kept"

\* variant: a page without id closes the current segment too
PageStepNoCarry(st, p, page_emp_id) ==
    IF page_emp_id # st.current.employee_id
    THEN [segments |-> IF st.current.pages # <<>>
                       THEN Append(st.segments, st.current)
                       ELSE st.segments,
          current  |-> [employee_id |-> page_emp_id, pages |-> <<p>>]]
    ELSE [segments |-> st.segments,
          current  |-> [employee_id |-> st.current.employee_id,
                        pages |-> Append(st.current.pages, p)]]

\* one iteration of the page loop: "if page_emp_id and page_emp_id !=
\* current_segment['employee_id']" closes the current segment (when it has
\* pages) and starts a new one; otherwise the page joins the current segment
PageStep(st, p, page_emp_id) ==
    IF page_emp_id # NoId /\ page_emp_id # st.current.employee_id
    THEN [segments |-> IF st.current.pages # <<>>
                       THEN Append(st.segments, st.current)
                       ELSE st.segments,
          current  |-> [employee_id |-> page_emp_id, pages |-> <<p>>]]
    ELSE [segments |-> st.segments,
          current  |-> [employee_id |-> IF page_emp_id # NoId
                                        THEN page_emp_id
                                        ELSE st.current.employee_id,
                        pages |-> Append(st.current.pages, p)]]

\* "if current_segment['pages']: segments.append(current_segment)"
CloseSegments(st) ==
    IF st.current.pages # <<>> THEN Append(st.segments, st.current)
                               ELSE st.segments

\* segments_with_employee = [s for s in segments if s['employee_id']]
IsIdentified(seg) == seg.employee_id # NoId

WithEmployee(segs) == SelectSeq(segs, IsIdentified)

\* variant: a single identified segment is split off as well
NoSplitBelowOne(segs) == Len(WithEmployee(segs)) < 1

\* "if len(segments_with_employee) <= 1: return result"
NoSplitNeeded(segs) == Len(WithEmployee(segs)) <= 1

\* variant: a leading segment without id stays a segment of its own
KeepLeading(segs) == segs

\* split_pdf_by_datamatrix: a leading segment without id is merged into
\* the segment that follows it
MergeLeading(segs) ==
    IF segs # <<>> /\ segs[1].employee_id = NoId /\ Len(segs) > 1
    THEN <<[employee_id |-> segs[2].employee_id,
            pages |-> segs[1].pages \o segs[2].pages]>> \o Tail(Tail(segs))
    ELSE segs

\* "if total_pages <= 1: return result"
OpenPdf ==
    /\ segPc = "open"
    /\ segPc' = IF Len(segIds) <= 1 THEN "done" ELSE "pages"
    /\ UNCHANGED <<splitter, segIds, page_num, segments, current_segment,
                   segIdx, result, writeFailed, original>>
    /\ UNCHANGED <<restVars, lockVars, scanVars>>

\* the body of "for page_num in range(total_pages)"
ScanPage ==
    /\ segPc = "pages"
    /\ page_num < Len(segIds)
    /\ LET st == PageStep([segments |-> segments, current |-> current_segment],
                          page_num, segIds[page_num + 1]) IN
          /\ segments' = st.segments
          /\ current_segment' = st.current
    /\ page_num' = page_num + 1
    /\ UNCHANGED <<splitter, segIds, segPc, segIdx, result, writeFailed, original>>
    /\ UNCHANGED <<restVars, lockVars, scanVars>>

\* after the loop: close the last segment; with at most one identified
\* segment nothing is split; split_pdf_by_datamatrix then merges a leading
\* segment without id, resplit_bundled_pdfs keeps the list as it is
EndOfPages ==
    /\ segPc = "pages"
    /\ page_num = Len(segIds)
    /\ LET segs == CloseSegments([segments |-> segments,
                                  current |-> current_segment]) IN
          IF NoSplitNeeded(segs)
          THEN /\ segments' = segs
               /\ segPc' = "done"
          ELSE /\ segments' = IF splitter = "split_pdf_by_datamatrix"
                              THEN MergeLeading(segs) ELSE segs
               /\ segPc' = "write"
    /\ segIdx' = 1
    /\ UNCHANGED <<splitter, segIds, page_num, current_segment, result,
                   writeFailed, original>>
    /\ UNCHANGED <<restVars, lockVars, scanVars>>

\* split_pdf_by_datamatrix, "for segment in segments": the split file is
\* written and appended to result, or the write fails and is only logged
WriteSegment ==
    /\ segPc = "write"
    /\ splitter = "split_pdf_by_datamatrix"
    /\ segIdx <= Len(segments)
    /\ \/ /\ result' = Append(result, segments[segIdx])
          /\ UNCHANGED writeFailed
       \/ /\ writeFailed' = TRUE
          /\ UNCHANGED result
    /\ segIdx' = segIdx + 1
    /\ UNCHANGED <<splitter, segIds, segPc, page_num, segments,
                   current_segment, original>>
    /\ UNCHANGED <<restVars, lockVars, scanVars>>

\* resplit_bundled_pdfs, "for segment in segments": a segment without id is
\* passed over ("if not emp_id: continue"); otherwise a Document is created
\* from its pages, or an exception leaves the method ("return 0")
CreateSegmentDocument ==
    /\ segPc = "write"
    /\ splitter = "resplit_bundled_pdfs"
    /\ segIdx <= Len(segments)
    /\ \/ /\ segments[segIdx].employee_id = NoId
          /\ segIdx' = segIdx + 1
          /\ UNCHANGED <<result, writeFailed, segPc>>
       \/ /\ segments[segIdx].employee_id # NoId
          /\ result' = Append(result, segments[segIdx])
          /\ segIdx' = segIdx + 1
          /\ UNCHANGED <<writeFailed, segPc>>
       \/ /\ segments[segIdx].employee_id # NoId
          /\ writeFailed' = TRUE
          /\ segPc' = "done"
          /\ UNCHANGED <<result, segIdx>>
    /\ UNCHANGED <<splitter, segIds, page_num, segments, current_segment, original>>
    /\ UNCHANGED <<restVars, lockVars, scanVars>>

\* after the segment loop: split_pdf_by_datamatrix returns result;
\* resplit_bundled_pdfs sets the original Document to ARCHIVED
EndOfSegments ==
    /\ segPc = "write"
    /\ segIdx = Len(segments) + 1
    /\ original' = IF splitter = "resplit_bundled_pdfs" THEN "ARCHIVED" ELSE original
    /\ segPc' = "done"
    /\ UNCHANGED <<splitter, segIds, page_num, segments, current_segment,
                   segIdx, result, writeFailed>>
    /\ UNCHANGED <<restVars, lockVars, scanVars>>

NextSeg ==
    \/ OpenPdf
    \/ ScanPage
    \/ EndOfPages
    \/ WriteSegment
    \/ CreateSegmentDocument
    \/ EndOfSegments

\* ------------------------------------------------------------------------
\* split_pdf_by_datamatrix as a function of the page ids and of the set of
\* segments whose split file cannot be written
\* ------------------------------------------------------------------------
RECURSIVE PageLoop(_, _)
PageLoop(ids, n) ==
    IF n = 0 THEN [segments |-> <<>>, current |-> EmptySegment]
    ELSE PageStep(PageLoop(ids, n - 1), n - 1, ids[n])

GroupPages(ids) == CloseSegments(PageLoop(ids, Len(ids)))

\* the segments the splitter goes on to write
SegmentsToWrite(ids) ==
    IF Len(ids) <= 1 THEN <<>>
    ELSE IF NoSplitNeeded(GroupPages(ids)) THEN <<>>
    ELSE MergeLeading(GroupPages(ids))

RECURSIVE Written(_, _, _)
Written(segs, failed, k) ==
    IF k > Len(segs) THEN <<>>
    ELSE (IF k \in failed THEN <<>> ELSE <<segs[k]>>) \o Written(segs, failed, k + 1)

split_pdf_by_datamatrix(ids, failed) == Written(SegmentsToWrite(ids), failed, 1)

\* ------------------------------------------------------------------------
\* _run_sage_scan                                    (src/dms/tasks.py)
\* ------------------------------------------------------------------------
Files == 1..MaxFiles

\* the archive's PDFs, by content: a one-page payslip, a bundle of three
\* employee runs, a PDF whose pages all belong to one employee, a PDF with
\* no code on any page
Contents == {"single", "bundle", "onlyA", "blank"}

ContentIds(c) ==
    CASE c = "single" -> <<"A">>
      [] c = "bundle" -> <<"A", "B", "A">>
      [] c = "onlyA"  -> <<"A", NoId, "A", NoId>>
      [] c = "blank"  -> <<NoId, NoId>>

NoDocument == [original_path |-> 0]

ZeroCounters == [processed_count |-> 0, error_count |-> 0,
                 already_processed_count |-> 0]

NoJob == [status |-> "none", total_files |-> 0, processed_files |-> 0,
          skipped_files |-> 0, error_files |-> 0]

\* settings.SAGE_ARCHIVE_PATH names a directory that exists or not;
\* settings.ENCRYPTION_KEY and the environment variable are set or not
Configs == {"ok", "no_archive_root", "no_encryption_key"}

\* @shared_task(bind=True, max_retries=3)
max_retries == 3

\* self.request.retries when the task starts: a first delivery, or the last
\* retry Celery grants
RetryCounts == {0, max_retries}

\* task_self.retry(exc=e, countdown=60): Celery raises Retry and delivers
\* the task again after the countdown while request.retries < max_retries,
\* and raises the original exception after that
task_retry(k) ==
    IF k < max_retries
    THEN [raised |-> "Retry", countdown |-> 60, retries |-> k + 1]
    ELSE [raised |-> "exc", countdown |-> 0, retries |-> k]

\* the scanner at rest (the value of its variables under the other
\* specifications)
IdleScan ==
    /\ content = <<>>
    /\ run = 0
    /\ phase = "idle"
    /\ known_paths = {}
    /\ known_hashes = {}
    /\ pcF = <<>>
    /\ split_results = <<>>
    /\ split_idx = <<>>
    /\ resF = <<>>
    /\ documents = {}
    /\ ledger = {}
    /\ counters = ZeroCounters
    /\ scan_job = NoJob
    /\ faultRuns = <<>>
    /\ config = "ok"
    /\ retries = 0
    /\ task_result = "none"

InitScan ==
    /\ content \in [Files -> Contents]
    /\ run = 0
    /\ phase = "idle"
    /\ known_paths = {}
    /\ known_hashes = {}
    /\ pcF = [f \in Files |-> "idle"]
    /\ split_results = [f \in Files |-> <<>>]
    /\ split_idx = [f \in Files |-> 0]
    /\ resF = [f \in Files |-> "none"]
    /\ documents = {}
    /\ ledger = {}
    /\ counters = ZeroCounters
    /\ scan_job = NoJob
    /\ faultRuns = <<>>
    /\ config \in Configs
    /\ retries \in RetryCounts
    /\ task_result = "none"

\* file_hash = calculate_sha256_chunked(path): equal bytes, equal digest
file_hash(f) == content[f]

\* Document.objects.create(...) for the whole file and for one split_info
WholeDocument(f) ==
    [original_path |-> f, sha256_hash |-> <<file_hash(f), 0>>, split_from |-> 0,
     pages |-> [i \in 1..Len(ContentIds(content[f])) |-> i - 1],
     employee_id_from_datamatrix |-> NoId, created_at |-> run]

SplitDocument(f, k) ==
    [original_path |-> f, sha256_hash |-> <<file_hash(f), k>>, split_from |-> f,
     pages |-> split_results[f][k].pages,
     employee_id_from_datamatrix |-> split_results[f][k].employee_id,
     created_at |-> run]

IsSplit(f) == Len(split_results[f]) > 1

\* variant: no ledger row is written after a split
NoLedgerRowAfterSplit(f) ==
    IF IsSplit(f) THEN {}
    ELSE {[sha256_hash |-> file_hash(f), original_path |-> f,
           document |-> WholeDocument(f), processed_at |-> run]}

\* variant: the row of a split bundle names a Document of the whole bundle
LedgerRowOfBundle(f) ==
    {[sha256_hash |-> file_hash(f), original_path |-> f,
      document |-> WholeDocument(f), processed_at |-> run]}

\* ProcessedFile.objects.create(...): document=None after a split
LedgerRow(f) ==
    {[sha256_hash |-> file_hash(f), original_path |-> f,
      document |-> IF IsSplit(f) THEN NoDocument ELSE WholeDocument(f),
      processed_at |-> run]}

\* ProcessedFile.objects.filter(sha256_hash=file_hash).exists()
InLedger(h) == \E l \in ledger : l.sha256_hash = h

CanFail == Len(faultRuns) < MaxFaults

\* the failures the environment may still inject
FaultBudget == IF CanFail THEN MaxFaults - Len(faultRuns) ELSE 0

\* a failure caused by the settings is recorded once per run
ConfigFault(r) ==
    IF \E i \in 1..Len(faultRuns) : faultRuns[i] = r THEN faultRuns
    ELSE Append(faultRuns, r)

\* phases 1 and 2: ScanJob RUNNING; a missing archive path ends the run
\* FAILED at once ("return {'status': 'error', ...}"); otherwise load the
\* known paths and hashes and walk the archive; with no new file the job is
\* COMPLETED at once.  The run is the delivery of a retry when the last
\* run raised Retry, and a new task otherwise.
StartRun ==
    /\ phase = "idle"
    /\ run < MaxRuns
    /\ run' = run + 1
    /\ retries' = IF run = 0 \/ task_result = "Retry" THEN retries ELSE 0
    /\ IF config = "no_archive_root"
       THEN /\ scan_job' = [NoJob EXCEPT !.status = "FAILED"]
            /\ task_result' = "error"
            /\ faultRuns' = ConfigFault(run')
            /\ known_paths' = {}
            /\ known_hashes' = {}
            /\ pcF' = [f \in Files |-> "idle"]
            /\ counters' = ZeroCounters
            /\ phase' = "idle"
       ELSE /\ known_paths' = {l.original_path : l \in ledger}
            /\ known_hashes' = {l.sha256_hash : l \in ledger}
            /\ LET new_file_paths == {f \in Files : f \notin known_paths'} IN
                  /\ pcF' = [f \in Files |->
                                IF f \in new_file_paths THEN "hash" ELSE "idle"]
                  /\ counters' = [ZeroCounters EXCEPT !.already_processed_count =
                                      Cardinality(Files \ new_file_paths)]
                  /\ scan_job' = [status |-> IF new_file_paths = {}
                                             THEN "COMPLETED" ELSE "RUNNING",
                                  total_files |-> Cardinality(new_file_paths),
                                  processed_files |-> 0,
                                  skipped_files |->
                                      Cardinality(Files \ new_file_paths),
                                  error_files |-> 0]
                  /\ phase' = IF new_file_paths = {} THEN "idle" ELSE "pool"
                  /\ task_result' = IF new_file_paths = {} THEN "success"
                                                           ELSE "none"
            /\ UNCHANGED faultRuns
    /\ split_results' = [f \in Files |-> <<>>]
    /\ split_idx' = [f \in Files |-> 0]
    /\ resF' = [f \in Files |-> "none"]
    /\ UNCHANGED <<content, documents, ledger, config>>
    /\ UNCHANGED <<restVars, lockVars, segVars>>

\* process_single_file ends: "return None" after a hash hit
Skipped(f) ==
    /\ counters' = [counters EXCEPT !.already_processed_count = @ + 1]
    /\ resF' = [resF EXCEPT ![f] = "skipped"]
    /\ pcF' = [pcF EXCEPT ![f] = "done"]

\* variant: a failed file is logged and not counted
FailedUncounted(f) ==
    /\ UNCHANGED counters
    /\ resF' = [resF EXCEPT ![f] = "error"]
    /\ pcF' = [pcF EXCEPT ![f] = "done"]

\* process_single_file ends in "except Exception"
Failed(f) ==
    /\ counters' = [counters EXCEPT !.error_count = @ + 1]
    /\ resF' = [resF EXCEPT ![f] = "error"]
    /\ pcF' = [pcF EXCEPT ![f] = "done"]

\* "with hashes_lock: is_known = file_hash in known_hashes"
HashCheck(f) ==
    /\ phase = "pool"
    /\ pcF[f] = "hash"
    /\ IF file_hash(f) \in known_hashes
       THEN Skipped(f)
       ELSE /\ pcF' = [pcF EXCEPT ![f] = "db"]
            /\ UNCHANGED <<counters, resF>>
    /\ UNCHANGED <<content, run, phase, known_paths, known_hashes, split_results,
                   split_idx, documents, ledger, scan_job, faultRuns>>
    /\ UNCHANGED <<config, retries, task_result>>
    /\ UNCHANGED <<restVars, lockVars, segVars>>

\* the database check for the hash; then, for a multi-page personnel PDF,
\* split_pdf_by_datamatrix (a split file that cannot be written is left out
\* of its result)
DbCheck(f) ==
    /\ phase = "pool"
    /\ pcF[f] = "db"
    /\ IF InLedger(file_hash(f))
       THEN /\ Skipped(f)
            /\ UNCHANGED <<split_results, split_idx, faultRuns>>
       ELSE /\ \E failed \in SUBSET (1..Len(SegmentsToWrite(ContentIds(content[f])))) :
                  /\ Cardinality(failed) <= FaultBudget
                  /\ split_results' = [split_results EXCEPT ![f] =
                         split_pdf_by_datamatrix(ContentIds(content[f]), failed)]
                  /\ faultRuns' = faultRuns \o [i \in 1..Cardinality(failed) |-> run]
            /\ split_idx' = [split_idx EXCEPT ![f] = 1]
            /\ pcF' = [pcF EXCEPT ![f] = "persist"]
            /\ UNCHANGED <<counters, resF>>
    /\ UNCHANGED <<content, run, phase, known_paths, known_hashes, documents,
                   ledger, scan_job, config, retries, task_result>>
    /\ UNCHANGED <<restVars, lockVars, segVars>>

\* "for split_info in split_results": read, encrypt and create one Document;
\* encrypt_data raises ValueError when no key is configured
PersistSplit(f) ==
    /\ phase = "pool"
    /\ pcF[f] = "persist"
    /\ IsSplit(f)
    /\ \/ /\ config = "no_encryption_key"
          /\ faultRuns' = ConfigFault(run)
          /\ Failed(f)
          /\ UNCHANGED <<documents, split_idx>>
       \/ /\ config # "no_encryption_key"
          /\ documents' = documents \cup {SplitDocument(f, split_idx[f])}
          /\ split_idx' = [split_idx EXCEPT ![f] = @ + 1]
          /\ pcF' = [pcF EXCEPT ![f] =
                        IF split_idx[f] = Len(split_results[f]) THEN "ledger"
                                                                ELSE "persist"]
          /\ UNCHANGED <<counters, resF, faultRuns>>
       \/ /\ CanFail
          /\ faultRuns' = Append(faultRuns, run)
          /\ Failed(f)
          /\ UNCHANGED <<documents, split_idx>>
    /\ UNCHANGED <<content, run, phase, known_paths, known_hashes, split_results,
                   ledger, scan_job, config, retries, task_result>>
    /\ UNCHANGED <<restVars, lockVars, segVars>>

\* the unsplit path: read, encrypt (ValueError when no key is configured),
\* Document.objects.create
PersistSingle(f) ==
    /\ phase = "pool"
    /\ pcF[f] = "persist"
    /\ ~IsSplit(f)
    /\ \/ /\ config = "no_encryption_key"
          /\ faultRuns' = ConfigFault(run)
          /\ Failed(f)
          /\ UNCHANGED documents
       \/ /\ config # "no_encryption_key"
          /\ documents' = documents \cup {WholeDocument(f)}
          /\ pcF' = [pcF EXCEPT ![f] = "ledger"]
          /\ UNCHANGED <<counters, resF, faultRuns>>
       \/ /\ CanFail
          /\ faultRuns' = Append(faultRuns, run)
          /\ Failed(f)
          /\ UNCHANGED documents
    /\ UNCHANGED <<content, run, phase, known_paths, known_hashes, split_results,
                   split_idx, ledger, scan_job, config, retries, task_result>>
    /\ UNCHANGED <<restVars, lockVars, segVars>>

\* ProcessedFile.objects.create: sha256_hash is unique, so a row for a hash
\* already in the table raises IntegrityError
WriteLedger(f) ==
    /\ phase = "pool"
    /\ pcF[f] = "ledger"
    /\ \/ /\ ~InLedger(file_hash(f))
          /\ ledger' = ledger \cup LedgerRow(f)
          /\ pcF' = [pcF EXCEPT ![f] = "memo"]
          /\ UNCHANGED <<counters, resF, faultRuns>>
       \/ /\ InLedger(file_hash(f))
          /\ Failed(f)
          /\ UNCHANGED <<ledger, faultRuns>>
       \/ /\ ~InLedger(file_hash(f))
          /\ CanFail
          /\ faultRuns' = Append(faultRuns, run)
          /\ Failed(f)
          /\ UNCHANGED ledger
    /\ UNCHANGED <<content, run, phase, known_paths, known_hashes, split_results,
                   split_idx, documents, scan_job, config, retries, task_result>>
    /\ UNCHANGED <<restVars, lockVars, segVars>>

\* "with hashes_lock: known_hashes.add(file_hash)", then "with counter_lock:
\* processed_count += ..."
Memo(f) ==
    /\ phase = "pool"
    /\ pcF[f] = "memo"
    /\ known_hashes' = known_hashes \cup {file_hash(f)}
    /\ counters' = [counters EXCEPT !.processed_count =
                       @ + (IF IsSplit(f) THEN Len(split_results[f]) ELSE 1)]
    /\ resF' = [resF EXCEPT ![f] = "processed"]
    /\ pcF' = [pcF EXCEPT ![f] = "done"]
    /\ UNCHANGED <<content, run, phase, known_paths, split_results, split_idx,
                   documents, ledger, scan_job, faultRuns, config, retries,
                   task_result>>
    /\ UNCHANGED <<restVars, lockVars, segVars>>

\* every future is done: the ScanJob is COMPLETED with the counters; or an
\* exception in the pool's with-block (a progress save, a log row) reaches
\* "except Exception" after the executor has waited for its workers: the
\* ScanJob is FAILED and the task asks Celery for a retry
FinishRun ==
    /\ phase = "pool"
    /\ \A f \in Files : pcF[f] \in {"idle", "done"}
    /\ \/ /\ scan_job' = [scan_job EXCEPT
                  !.status = "COMPLETED",
                  !.processed_files = counters.processed_count,
                  !.error_files = counters.error_count,
                  !.skipped_files = counters.already_processed_count]
          /\ task_result' = "success"
          /\ UNCHANGED <<retries, faultRuns>>
       \/ /\ CanFail
          /\ faultRuns' = Append(faultRuns, run)
          /\ scan_job' = [scan_job EXCEPT !.status = "FAILED"]
          /\ task_result' = task_retry(retries).raised
          /\ retries' = task_retry(retries).retries
    /\ phase' = "idle"
    /\ UNCHANGED <<content, run, known_paths, known_hashes, pcF, split_results,
                   split_idx, resF, documents, ledger, counters, config>>
    /\ UNCHANGED <<restVars, lockVars, segVars>>

NextScan ==
    \/ StartRun
    \/ \E f \in Files : HashCheck(f)
    \/ \E f \in Files : DbCheck(f)
    \/ \E f \in Files : PersistSplit(f)
    \/ \E f \in Files : PersistSingle(f)
    \/ \E f \in Files : WriteLedger(f)
    \/ \E f \in Files : Memo(f)
    \/ FinishRun

\* ------------------------------------------------------------------------
\* distributed_lock / scan_sage_archive            (src/dms/tasks.py)
\* ------------------------------------------------------------------------
Tasks == 1..MaxTasks

NoKey == 0

\* lock_value = str(uuid.uuid4()): a fresh token per invocation
lock_value(t) == t

InitLock ==
    /\ lockKey = NoKey
    /\ pc = [t \in Tasks |-> "start"]
    /\ acquired = [t \in Tasks |-> "unbound"]
    /\ yielded = [t \in Tasks |-> FALSE]
    /\ pending = [t \in Tasks |-> "none"]
    /\ outcome = [t \in Tasks |-> "none"]
    /\ scanJob = [t \in Tasks |-> "none"]
    /\ created = [t \in Tasks |-> 0]
    /\ lockLost = [t \in Tasks |-> FALSE]

\* variant: a SET without NX overwrites the key
SetWithoutNX(key, value) == [stored |-> value, reply |-> "True"]

\* client.set(lock_key, lock_value, nx=True, ex=timeout): the value stored
\* after the call and the reply (True, or None when the key exists)
SetNX(key, value) ==
    IF key = NoKey THEN [stored |-> value, reply |-> "True"]
                   ELSE [stored |-> key, reply |-> "None"]

\* variant: a release that deletes the key whatever it holds
ReleaseAlways(key, value) == NoKey

\* the Lua script of the release: delete only when the stored value is ours
ReleaseScript(key, value) == IF key = value THEN NoKey ELSE key

\* what distributed_lock yields after a ConnectionError
YieldOnConnectionError == TRUE

\* distributed_lock up to its yield: SET NX EX, or ConnectionError
Acquire(t) ==
    /\ pc[t] = "start"
    /\ \/ LET r == SetNX(lockKey, lock_value(t)) IN
          /\ acquired' = [acquired EXCEPT ![t] = r.reply]
          /\ yielded' = [yielded EXCEPT ![t] = (r.reply = "True")]
          /\ lockKey' = r.stored
       \/ /\ yielded' = [yielded EXCEPT ![t] = YieldOnConnectionError]
          /\ UNCHANGED <<acquired, lockKey>>
    /\ pc' = [pc EXCEPT ![t] = "with"]
    /\ UNCHANGED <<restVars, segVars, scanVars, pending, outcome, scanJob, created, lockLost>>

\* variant: the loser runs the scan instead of returning
SkipRunsBody(t) ==
    /\ pc[t] = "with"
    /\ ~yielded[t]
    /\ scanJob' = [scanJob EXCEPT ![t] = "RUNNING"]
    /\ pc' = [pc EXCEPT ![t] = "scan"]
    /\ UNCHANGED <<restVars, segVars, scanVars, lockKey, acquired, yielded, pending, outcome, created, lockLost>>

\* scan_sage_archive: "if not acquired: return {'status': 'skipped'}"
Skip(t) ==
    /\ pc[t] = "with"
    /\ ~yielded[t]
    /\ pending' = [pending EXCEPT ![t] = "skipped"]
    /\ pc' = [pc EXCEPT ![t] = "finally"]
    /\ UNCHANGED <<restVars, segVars, scanVars, lockKey, acquired, yielded, outcome, scanJob, created, lockLost>>

\* _run_sage_scan, start: ScanJob.objects.create(status='RUNNING'); a missing
\* archive path ends the run FAILED at once
RunStart(t) ==
    /\ pc[t] = "with"
    /\ yielded[t]
    /\ \/ /\ scanJob' = [scanJob EXCEPT ![t] = "RUNNING"]
          /\ pc' = [pc EXCEPT ![t] = "scan"]
          /\ UNCHANGED pending
       \/ /\ scanJob' = [scanJob EXCEPT ![t] = "FAILED"]
          /\ pending' = [pending EXCEPT ![t] = "error"]
          /\ pc' = [pc EXCEPT ![t] = "finally"]
    /\ UNCHANGED <<restVars, segVars, scanVars, lockKey, acquired, yielded, outcome, created, lockLost>>

\* _run_sage_scan, phases 1 to 3: the known files are loaded and the tree
\* is walked, then the pool writes Documents and ledger rows; an exception
\* of the phases 1 and 2 (a query, iterdir, rglob) is raised before the
\* try statement of phase 3 and leaves the function as it is
RunFiles(t) ==
    /\ pc[t] = "scan"
    /\ \/ /\ \E n \in 0..1 : created' = [created EXCEPT ![t] = n]
          /\ pc' = [pc EXCEPT ![t] = "finish"]
          /\ UNCHANGED pending
       \/ /\ pending' = [pending EXCEPT ![t] = "exc"]
          /\ pc' = [pc EXCEPT ![t] = "finally"]
          /\ UNCHANGED created
    /\ UNCHANGED <<restVars, segVars, scanVars, lockKey, acquired, yielded, outcome, scanJob, lockLost>>

\* _run_sage_scan, end: COMPLETED and a result, or FAILED and task.retry
RunFinish(t) ==
    /\ pc[t] = "finish"
    /\ \/ /\ scanJob' = [scanJob EXCEPT ![t] = "COMPLETED"]
          /\ pending' = [pending EXCEPT ![t] = "success"]
       \/ /\ scanJob' = [scanJob EXCEPT ![t] = "FAILED"]
          /\ pending' = [pending EXCEPT ![t] = "retry"]
    /\ pc' = [pc EXCEPT ![t] = "finally"]
    /\ UNCHANGED <<restVars, segVars, scanVars, lockKey, acquired, yielded, outcome, created, lockLost>>

\* distributed_lock, finally: "if acquired:" reads a local that is unbound
\* after a ConnectionError (UnboundLocalError); otherwise the guarded
\* release, whose own failure is caught and logged
Exit(t) ==
    /\ pc[t] = "finally"
    /\ \/ /\ acquired[t] = "unbound"
          /\ outcome' = [outcome EXCEPT ![t] = "UnboundLocalError"]
          /\ UNCHANGED lockKey
       \/ /\ acquired[t] = "True"
          /\ \/ lockKey' = ReleaseScript(lockKey, lock_value(t))
             \/ UNCHANGED lockKey
          /\ outcome' = [outcome EXCEPT ![t] = pending[t]]
       \/ /\ acquired[t] = "None"
          /\ outcome' = [outcome EXCEPT ![t] = pending[t]]
          /\ UNCHANGED lockKey
    /\ pc' = [pc EXCEPT ![t] = "done"]
    /\ UNCHANGED <<restVars, segVars, scanVars, acquired, yielded, pending, scanJob, created, lockLost>>

\* variant: the key is stored without ex=timeout and stays until deleted
NeverExpires(key) == FALSE

\* "client.set(lock_key, lock_value, nx=True, ex=timeout)": every stored key
\* carries its expiry
Expires(key) == key # NoKey

\* the key's expiry (ex=timeout) while the key is stored
Expire ==
    /\ Expires(lockKey)
    /\ lockLost' = [lockLost EXCEPT ![lockKey] = TRUE]
    /\ lockKey' = NoKey
    /\ UNCHANGED <<restVars, segVars, scanVars, pc, acquired, yielded, pending, outcome, scanJob, created>>

\* admin_run_reset_locks: stale RUNNING jobs become FAILED, every
\* dms:lock:* key is deleted
admin_run_reset_locks ==
    /\ \E stale \in SUBSET {t \in Tasks : scanJob[t] = "RUNNING"} :
          scanJob' = [t \in Tasks |-> IF t \in stale THEN "FAILED" ELSE scanJob[t]]
    /\ lockLost' = [t \in Tasks |-> lockLost[t] \/ (lockKey = lock_value(t))]
    /\ lockKey' = NoKey
    /\ UNCHANGED <<restVars, segVars, scanVars, pc, acquired, yielded, pending, outcome, created>>

NextLock ==
    \/ \E t \in Tasks : Acquire(t)
    \/ \E t \in Tasks : Skip(t)
    \/ \E t \in Tasks : RunStart(t)
    \/ \E t \in Tasks : RunFiles(t)
    \/ \E t \in Tasks : RunFinish(t)
    \/ \E t \in Tasks : Exit(t)
    \/ Expire
    \/ admin_run_reset_locks

\* ------------------------------------------------------------------------
\* Matching rules: auto_classify_document (src/dms/tasks.py) and the
\* reclassify_documents command
\* ------------------------------------------------------------------------
None == "None"

Priorities == {10, 20}

\* a rule is global (tenant None) or belongs to the scope T1
RuleTenants == {None, "T1"}

\* what a rule assigns: a document type, or an employee with a status
Targets ==
    { [assign_document_type |-> "Payslip", assign_employee |-> None,
       assign_status |-> None],
      [assign_document_type |-> None, assign_employee |-> "E1",
       assign_status |-> "ASSIGNED"] }

\* the Documents the rules meet: fresh from the inbox, awaiting review with an
\* employee, typed, fully assigned, archived, and a Document of another
\* scope that the scan left for review
ImportedDocuments ==
    { [tenant |-> "T1", document_type |-> None, employee |-> None,
       status |-> "UNASSIGNED"],
      [tenant |-> "T1", document_type |-> None, employee |-> "E2",
       status |-> "REVIEW_NEEDED"],
      [tenant |-> "T1", document_type |-> "Contract", employee |-> None,
       status |-> "UNASSIGNED"],
      [tenant |-> "T1", document_type |-> "Contract", employee |-> "E2",
       status |-> "ASSIGNED"],
      [tenant |-> "T1", document_type |-> "Contract", employee |-> "E2",
       status |-> "ARCHIVED"],
      [tenant |-> "T2", document_type |-> None, employee |-> None,
       status |-> "REVIEW_NEEDED"] }

IdleRules ==
    /\ rules = <<>>
    /\ document = [tenant |-> "T1", document_type |-> None, employee |-> None,
                   status |-> "UNASSIGNED"]
    /\ rulePc = "idle"
    /\ caller = "none"
    /\ order = <<>>
    /\ evaluated = {}
    /\ applied = 0
    /\ before = document

InitRules ==
    /\ rules = <<>>
    /\ document \in ImportedDocuments
    /\ rulePc = "register"
    /\ caller = "none"
    /\ order = <<>>
    /\ evaluated = {}
    /\ applied = 0
    /\ before = document

\* a MatchingRule row is created; "matches" stands for the outcome of the
\* rule's algorithm on the Document's file name and title
RegisterRule ==
    /\ rulePc = "register"
    /\ Len(rules) < MaxRules
    /\ \E p \in Priorities : \E t \in RuleTenants : \E a \in BOOLEAN :
       \E m \in BOOLEAN : \E tg \in Targets :
          rules' = Append(rules,
                     [priority |-> p, tenant |-> t, is_active |-> a,
                      matches |-> m,
                      assign_document_type |-> tg.assign_document_type,
                      assign_employee |-> tg.assign_employee,
                      assign_status |-> tg.assign_status])
    /\ UNCHANGED <<document, rulePc, caller, order, evaluated, applied, before>>
    /\ UNCHANGED <<coreVars, extraVars, filingVars, retentionVars>>

\* MatchingRule.objects.filter(is_active=True), and with a tenant
\* .filter(Q(tenant=tenant) | Q(tenant__isnull=True))
ActiveRules(tenant) ==
    {i \in 1..Len(rules) :
        /\ rules[i].is_active
        /\ tenant # None => rules[i].tenant \in {tenant, None}}

Perms(S) ==
    {o \in [1..Cardinality(S) -> S] :
        \A i \in 1..Cardinality(S) : \A j \in 1..Cardinality(S) :
            i # j => o[i] # o[j]}

\* variant: the rules come back in the order they were registered
OrderByRegistration(S) ==
    {o \in Perms(S) : \A i \in 1..Len(o) : \A j \in 1..Len(o) :
                          i < j => o[i] < o[j]}

\* .order_by('-priority'): the query names no second sort key, so rows of
\* equal priority come back in an order the database chooses
OrderByPriority(S) ==
    {o \in Perms(S) : \A i \in 1..Len(o) : \A j \in 1..Len(o) :
                          i < j => rules[o[i]].priority >= rules[o[j]].priority}

\* "for rule in rules: ... if matched:": the position of the first match, 0
\* when the loop ends without one
FirstMatch(o) ==
    IF \E i \in 1..Len(o) : rules[o[i]].matches
    THEN CHOOSE i \in 1..Len(o) :
             /\ rules[o[i]].matches
             /\ \A j \in 1..(i - 1) : ~rules[o[j]].matches
    ELSE 0

\* variant: the rule's targets are written whatever the Document holds
ApplyRuleOverwriting(doc, rule) ==
    [doc EXCEPT
       !.document_type = IF rule.assign_document_type # None
                         THEN rule.assign_document_type ELSE @,
       !.employee = IF rule.assign_employee # None
                    THEN rule.assign_employee ELSE @,
       !.status = IF rule.assign_status # None THEN rule.assign_status ELSE @]

\* auto_classify_document, "if matched:": a target is written only to a field
\* that is empty, the status only while it is UNASSIGNED (or NEW)
ApplyRule(doc, rule) ==
    [doc EXCEPT
       !.document_type = IF rule.assign_document_type # None /\ @ = None
                         THEN rule.assign_document_type ELSE @,
       !.employee = IF rule.assign_employee # None /\ @ = None
                    THEN rule.assign_employee ELSE @,
       !.status = IF rule.assign_status # None /\ @ \in {"UNASSIGNED", "NEW"}
                  THEN rule.assign_status ELSE @]

\* reclassify_documents, "if self.match_document(doc, rule):": a target is
\* written whenever it differs from the field
ReclassifyRule(doc, rule) ==
    [doc EXCEPT
       !.document_type = IF rule.assign_document_type # None
                            /\ @ # rule.assign_document_type
                         THEN rule.assign_document_type ELSE @,
       !.employee = IF rule.assign_employee # None /\ @ # rule.assign_employee
                    THEN rule.assign_employee ELSE @,
       !.status = IF rule.assign_status # None /\ @ # rule.assign_status
                  THEN rule.assign_status ELSE @]

\* the loop over the rules up to the first match and its "return True" /
\* "break"
Evaluate(o) ==
    /\ order' = o
    /\ evaluated' = IF FirstMatch(o) = 0 THEN {o[j] : j \in 1..Len(o)}
                    ELSE {o[j] : j \in 1..FirstMatch(o)}
    /\ applied' = IF FirstMatch(o) = 0 THEN 0 ELSE o[FirstMatch(o)]
    /\ before' = document
    /\ rulePc' = "classified"

auto_classify_document ==
    /\ rulePc = "register"
    /\ \E tenant \in {None, document.tenant} :
       \E o \in OrderByPriority(ActiveRules(tenant)) :
          /\ Evaluate(o)
          /\ document' = IF FirstMatch(o) = 0 THEN document
                         ELSE ApplyRule(document, rules[o[FirstMatch(o)]])
    /\ caller' = "auto_classify_document"
    /\ UNCHANGED rules
    /\ UNCHANGED <<coreVars, extraVars, filingVars, retentionVars>>

\* Command.handle for the one Document: it is selected with --all or while
\* it has no document type; --dry-run writes nothing
reclassify_documents ==
    /\ rulePc = "register"
    /\ \E process_all \in BOOLEAN : \E dry_run \in BOOLEAN :
       \E tenant \in {None, document.tenant} :
       \E o \in OrderByPriority(ActiveRules(tenant)) :
          /\ process_all \/ document.document_type = None
          /\ Evaluate(o)
          /\ document' = IF FirstMatch(o) = 0 \/ dry_run THEN document
                         ELSE ReclassifyRule(document, rules[o[FirstMatch(o)]])
    /\ caller' = "reclassify_documents"
    /\ UNCHANGED rules
    /\ UNCHANGED <<coreVars, extraVars, filingVars, retentionVars>>

NextRules ==
    \/ RegisterRule
    \/ auto_classify_document
    \/ reclassify_documents

\* ------------------------------------------------------------------------
\* Filing: auto_file_document (src/dms/signals.py), PersonnelFileEntry.save
\* (src/dms/models.py), personnel_file_add_document and personnel_file_create
\* (src/dms/views.py), the auto_file_documents command
\* ------------------------------------------------------------------------
Docs == 1..MaxDocs

\* the batch of Documents that reaches the filing: with employee and filing
\* category and awaiting review, or inbox Documents without either
DocKinds ==
    { [employee |-> "E1", file_category |-> "Payroll", status |-> "REVIEW_NEEDED",
       deleted |-> FALSE],
      [employee |-> None, file_category |-> None, status |-> "UNASSIGNED",
       deleted |-> FALSE] }

DeletedDocument ==
    [employee |-> None, file_category |-> None, status |-> None, deleted |-> TRUE]

\* personnel_file_create: file_number = f"PA-{employee.employee_id}"
NewPersonnelFile(employee) ==
    [employee |-> employee, file_number |-> <<"PA", employee>>, status |-> "ACTIVE"]

\* getattr(instance.employee, 'personnel_file', None) without a file
NoPersonnelFile == [employee |-> None, file_number |-> <<>>, status |-> None]

IdleFiling ==
    /\ personnel_file = NoPersonnelFile
    /\ docs = [d \in Docs |-> [employee |-> None, file_category |-> None,
                               status |-> "UNASSIGNED", deleted |-> FALSE]]
    /\ file_entries = {}
    /\ filePc = [d \in Docs |-> "idle"]
    /\ entry_number = [d \in Docs |-> 0]
    /\ fileRes = [d \in Docs |-> "none"]
    /\ maxAssigned = 0

InitFiling ==
    /\ personnel_file \in {NoPersonnelFile, NewPersonnelFile("E1")}
    /\ docs \in {[d \in Docs |-> k] : k \in DocKinds}
    /\ file_entries = {}
    /\ filePc = [d \in Docs |-> "idle"]
    /\ entry_number = [d \in Docs |-> 0]
    /\ fileRes = [d \in Docs |-> "none"]
    /\ maxAssigned = 0

personnel_file_create ==
    /\ personnel_file = NoPersonnelFile
    /\ personnel_file' = NewPersonnelFile("E1")
    /\ UNCHANGED <<docs, file_entries, filePc, entry_number, fileRes,
                   maxAssigned>>
    /\ UNCHANGED <<coreVars, extraVars, ruleVars, retentionVars>>

\* PersonnelFileEntry.objects.filter(personnel_file=..., document=...).exists()
EntryExists(d) == \E e \in file_entries : e.document = d

\* the checks before an entry is created: employee, document type with
\* filing category, an existing PersonnelFile of the employee, no entry yet;
\* the handler returns when one of them fails
FilingChecks(d) ==
    IF docs[d].employee = None THEN "no_employee"
    ELSE IF docs[d].file_category = None THEN "no_category"
    ELSE IF personnel_file = NoPersonnelFile
            \/ personnel_file.employee # docs[d].employee
         THEN "no_personnel_file"
    ELSE IF EntryExists(d) THEN "exists"
    ELSE "create"

BeginFiling(d) ==
    /\ filePc[d] = "idle"
    /\ ~docs[d].deleted
    /\ filePc' = [filePc EXCEPT ![d] =
                     IF FilingChecks(d) = "create" THEN "save" ELSE "idle"]
    /\ fileRes' = [fileRes EXCEPT ![d] =
                      IF FilingChecks(d) = "no_personnel_file"
                      THEN "no_personnel_file" ELSE @]
    /\ UNCHANGED <<personnel_file, docs, file_entries, entry_number,
                   maxAssigned>>
    /\ UNCHANGED <<coreVars, extraVars, ruleVars, retentionVars>>

\* the post_save handler of Document, up to PersonnelFileEntry.objects.create
auto_file_document(d) == BeginFiling(d)

\* the loop body of the auto_file_documents command, up to
\* PersonnelFileEntry.objects.create
auto_file_documents(d) ==
    /\ docs[d].employee # None /\ docs[d].file_category # None
    /\ BeginFiling(d)

\* PersonnelFileEntry.save: last_entry.entry_number + 1, or 1
NextEntryNumber(rows) ==
    IF rows = {} THEN 1
    ELSE (CHOOSE n \in {e.entry_number : e \in rows} :
              \A e \in rows : e.entry_number <= n) + 1

\* the history of the inserted numbers
Inserted(n) == maxAssigned' = IF n > maxAssigned THEN n ELSE maxAssigned

\* PersonnelFileEntry.save, "if not self.entry_number:": read the last entry
EntrySave(d) ==
    /\ filePc[d] = "save"
    /\ entry_number' = [entry_number EXCEPT ![d] = NextEntryNumber(file_entries)]
    /\ filePc' = [filePc EXCEPT ![d] = "insert"]
    /\ UNCHANGED <<personnel_file, docs, file_entries, fileRes, maxAssigned>>
    /\ UNCHANGED <<coreVars, extraVars, ruleVars, retentionVars>>

\* super().save(): the INSERT; unique_together (personnel_file, entry_number)
\* or a Document deleted meanwhile raise IntegrityError, which the callers
\* catch and log
EntryInsert(d) ==
    /\ filePc[d] = "insert"
    /\ IF \/ \E e \in file_entries : e.entry_number = entry_number[d]
          \/ docs[d].deleted
       THEN /\ fileRes' = [fileRes EXCEPT ![d] = "failed"]
            /\ UNCHANGED <<file_entries, maxAssigned>>
       ELSE /\ file_entries' = file_entries \cup
                   {[entry_number |-> entry_number[d], document |-> d,
                     created_by |-> None]}
            /\ Inserted(entry_number[d])
            /\ fileRes' = [fileRes EXCEPT ![d] = "filed"]
    /\ filePc' = [filePc EXCEPT ![d] = "idle"]
    /\ entry_number' = [entry_number EXCEPT ![d] = 0]
    /\ UNCHANGED <<personnel_file, docs>>
    /\ UNCHANGED <<coreVars, extraVars, ruleVars, retentionVars>>

\* the manual add request: PersonnelFileEntry.objects.create without a look
\* for an existing entry, then status ASSIGNED and the file's employee; the
\* document.save() that follows runs auto_file_document, which finds the
\* entry (or no filing category) and returns
personnel_file_add_document(d) ==
    /\ personnel_file # NoPersonnelFile
    /\ ~docs[d].deleted
    /\ Cardinality(file_entries) < MaxEntries
    /\ file_entries' = file_entries \cup
           {[entry_number |-> NextEntryNumber(file_entries), document |-> d,
             created_by |-> "user"]}
    /\ Inserted(NextEntryNumber(file_entries))
    /\ docs' = [docs EXCEPT ![d].status = "ASSIGNED",
                            ![d].employee = personnel_file.employee]
    /\ UNCHANGED <<personnel_file, filePc, entry_number, fileRes>>
    /\ UNCHANGED <<coreVars, extraVars, ruleVars, retentionVars>>

\* the bulk action 'delete': documents.delete(); its entries go with it
\* (on_delete=CASCADE)
DeleteDocument(d) ==
    /\ ~docs[d].deleted
    /\ docs' = [docs EXCEPT ![d] = DeletedDocument]
    /\ file_entries' = {e \in file_entries : e.document # d}
    /\ UNCHANGED <<personnel_file, filePc, entry_number, fileRes, maxAssigned>>
    /\ UNCHANGED <<coreVars, extraVars, ruleVars, retentionVars>>

NextFiling ==
    \/ personnel_file_create
    \/ \E d \in Docs : auto_file_document(d)
    \/ \E d \in Docs : auto_file_documents(d)
    \/ \E d \in Docs : EntrySave(d)
    \/ \E d \in Docs : EntryInsert(d)
    \/ \E d \in Docs : personnel_file_add_document(d)
    \/ \E d \in Docs : DeleteDocument(d)

\* ------------------------------------------------------------------------
\* Retention: calculate_entry_retention_date, calculate_retention_date,
\* update_personnel_file_retention (src/dms/signals.py) and the closing of a
\* file in the admin (src/dms/admin.py)
\* ------------------------------------------------------------------------

\* a date is <<year, month, day>>; NoDate is Python's None
NoDate == <<>>

CreatedDates == {<<2024, 6, 1>>, <<2024, 2, 29>>}

DocumentDates == {NoDate, <<2020, 3, 1>>}

ClosedDates == {<<2025, 1, 15>>}

RetentionYears == {0, 3, 10}

RetentionTriggers == {"CREATION", "EXIT", "DOCUMENT_DATE"}

IsLeap(y) == (y % 4 = 0 /\ y % 100 # 0) \/ y % 400 = 0

\* date + relativedelta(years=n): the same day n years on, 29 February
\* becoming 28 February in a year that has none
AddYears(date, n) ==
    <<date[1] + n, date[2],
      IF date[2] = 2 /\ date[3] = 29 /\ ~IsLeap(date[1] + n) THEN 28 ELSE date[3]>>

\* a > b on dates
Later(a, b) ==
    \/ a[1] > b[1]
    \/ a[1] = b[1] /\ a[2] > b[2]
    \/ a[1] = b[1] /\ a[2] = b[2] /\ a[3] > b[3]

\* variant: the EXIT period counted from the entry's creation
RetentionFromCreation(entry, file) ==
    IF entry.retention_years = 0 THEN NoDate
    ELSE IF entry.retention_trigger = "DOCUMENT_DATE" /\ entry.document_date # NoDate
         THEN AddYears(entry.document_date, entry.retention_years)
    ELSE AddYears(entry.created_at, entry.retention_years)

calculate_entry_retention_date(entry, file) ==
    IF entry.retention_years = 0 THEN NoDate
    ELSE IF entry.retention_trigger = "EXIT"
         THEN IF file.closed_at # NoDate
              THEN AddYears(file.closed_at, entry.retention_years)
              ELSE NoDate
    ELSE IF entry.retention_trigger = "CREATION"
         THEN AddYears(entry.created_at, entry.retention_years)
    ELSE IF entry.retention_trigger = "DOCUMENT_DATE"
         THEN IF entry.document_date # NoDate
              THEN AddYears(entry.document_date, entry.retention_years)
              ELSE AddYears(entry.created_at, entry.retention_years)
    ELSE NoDate

\* the dates of the file's entries that are not None
EntryDates(file, rows) ==
    {calculate_entry_retention_date(e, file) : e \in rows} \ {NoDate}

MaxDate(dates) == CHOOSE x \in dates : \A y \in dates : ~Later(y, x)

\* the pre_save handler of PersonnelFile: for an INACTIVE file the latest
\* date of its entries, or closed_at + 10 years when no entry has one
calculate_retention_date(file, rows) ==
    IF file.status # "INACTIVE" THEN file
    ELSE IF EntryDates(file, rows) # {}
         THEN [file EXCEPT !.retention_until = MaxDate(EntryDates(file, rows))]
    ELSE IF file.closed_at # NoDate
         THEN [file EXCEPT !.retention_until = AddYears(file.closed_at, 10)]
    ELSE file

IdleRetention ==
    /\ pf = [status |-> "ACTIVE", closed_at |-> NoDate, retention_until |-> NoDate]
    /\ entries = {}

InitRetention ==
    /\ pf = [status |-> "ACTIVE", closed_at |-> NoDate, retention_until |-> NoDate]
    /\ entries = {}

\* an entry is saved; the post_save handler raises the file's
\* retention_until to the entry's date and saves the file, which runs the
\* pre_save handler
update_personnel_file_retention ==
    /\ Cardinality(entries) < MaxEntries
    /\ \E years \in RetentionYears : \E trigger \in RetentionTriggers :
       \E created_at \in CreatedDates : \E document_date \in DocumentDates :
          LET instance == [retention_years |-> years, retention_trigger |-> trigger,
                           created_at |-> created_at,
                           document_date |-> document_date]
              retention_date == calculate_entry_retention_date(instance, pf)
          IN /\ instance \notin entries
             /\ entries' = entries \cup {instance}
             /\ pf' = IF /\ retention_date # NoDate
                         /\ \/ pf.retention_until = NoDate
                            \/ Later(retention_date, pf.retention_until)
                      THEN calculate_retention_date(
                               [pf EXCEPT !.retention_until = retention_date],
                               entries')
                      ELSE pf
    /\ UNCHANGED <<coreVars, extraVars, ruleVars, filingVars>>

\* the file is closed on its admin form: status INACTIVE and a closed date,
\* saved with save(), which runs the pre_save handler
SaveClosed ==
    /\ pf.status = "ACTIVE"
    /\ \E closed \in ClosedDates :
          pf' = calculate_retention_date(
                    [pf EXCEPT !.status = "INACTIVE", !.closed_at = closed], entries)
    /\ UNCHANGED entries
    /\ UNCHANGED <<coreVars, extraVars, ruleVars, filingVars>>

\* the admin action "Akten schliessen": queryset.update(status='INACTIVE',
\* closed_at=today), which sends no pre_save signal
close_files ==
    /\ pf.status = "ACTIVE"
    /\ \E closed \in ClosedDates :
          pf' = [pf EXCEPT !.status = "INACTIVE", !.closed_at = closed]
    /\ UNCHANGED entries
    /\ UNCHANGED <<coreVars, extraVars, ruleVars, filingVars>>

NextRetention ==
    \/ update_personnel_file_retention
    \/ SaveClosed
    \/ close_files

\* the other groups at rest
\* ------------------------------------------------------------------------
\* find_employee_by_id                               (src/dms/tasks.py)
\* ------------------------------------------------------------------------
\* an employee number is a string, here a sequence of characters
Digits == {"0", "7"}

Chars == Digits \cup {"x"}

\* employee_id.zfill(8)
ZfillWidth == 8

\* str.isdigit(): not empty and digits only
IsDigit(id) == id # <<>> /\ \A i \in 1..Len(id) : id[i] \in Digits

\* str.lstrip('0')
RECURSIVE Lstrip0(_)
Lstrip0(id) ==
    IF id # <<>> /\ Head(id) = "0" THEN Lstrip0(Tail(id)) ELSE id

\* str.zfill(width): zeros on the left up to the width
Zfill(id, width) ==
    IF Len(id) >= width THEN id
    ELSE [i \in 1..width |-> IF i <= width - Len(id) THEN "0"
                             ELSE id[i - (width - Len(id))]]

RawIds == UNION {[1..n -> Chars] : n \in 0..MaxIdLen}

Tenants == {"T1", "T2"}

\* the employee numbers on file: a short number, the same number with a
\* leading zero and padded to eight digits, and a number that is no digit
EmployeeNumbers ==
    {<<"7">>, <<"0", "7">>, Zfill(<<"7">>, ZfillWidth), <<"x">>}

\* "return None"
NoEmployee == [employee_id |-> <<>>, tenant |-> None]

\* Employee.employee_id is unique=True: each number belongs to no employee
\* or to one employee of one tenant
Registries ==
    {{[employee_id |-> n, tenant |-> owner[n]] :
          n \in {m \in EmployeeNumbers : owner[m] # None}} :
       owner \in [EmployeeNumbers -> Tenants \cup {None}]}

\* queryset.filter(employee_id=id).first()
FirstWithId(queryset, id) ==
    IF \E e \in queryset : e.employee_id = id
    THEN CHOOSE e \in queryset : e.employee_id = id
    ELSE NoEmployee

\* variant: the padded form is tried before the stripped form
find_employee_padded_first(employee_id, tenant, rows, fails) ==
    LET queryset == IF tenant # None THEN {e \in rows : e.tenant = tenant}
                                     ELSE rows IN
    IF employee_id = <<>> THEN NoEmployee
    ELSE IF FirstWithId(queryset, employee_id) # NoEmployee
         THEN FirstWithId(queryset, employee_id)
    ELSE IF ~IsDigit(employee_id) THEN NoEmployee
    ELSE IF FirstWithId(queryset, Zfill(employee_id, ZfillWidth)) # NoEmployee
         THEN FirstWithId(queryset, Zfill(employee_id, ZfillWidth))
    ELSE FirstWithId(queryset, Lstrip0(employee_id))

\* find_employee_by_id(employee_id, tenant): the exact number, then for a
\* number of digits the number without leading zeros, then the number
\* padded to eight digits; "except Exception: return None" when the query
\* number "fails" raises
find_employee_by_id(employee_id, tenant, rows, fails) ==
    LET queryset == IF tenant # None THEN {e \in rows : e.tenant = tenant}
                                     ELSE rows IN
    IF employee_id = <<>> THEN NoEmployee
    ELSE IF fails = 1 THEN NoEmployee
    ELSE IF FirstWithId(queryset, employee_id) # NoEmployee
         THEN FirstWithId(queryset, employee_id)
    ELSE IF ~IsDigit(employee_id) THEN NoEmployee
    ELSE IF fails = 2 THEN NoEmployee
    ELSE IF FirstWithId(queryset, Lstrip0(employee_id)) # NoEmployee
         THEN FirstWithId(queryset, Lstrip0(employee_id))
    ELSE IF fails = 3 THEN NoEmployee
    ELSE FirstWithId(queryset, Zfill(employee_id, ZfillWidth))

\* the resolver at rest (the value of its variables under the other
\* specifications)
IdleResolve ==
    /\ employees = {}
    /\ raw_id = <<>>
    /\ scope = None
    /\ db_fails = 0
    /\ resolved = NoEmployee
    /\ resolvePc = "idle"

InitResolve ==
    /\ employees \in Registries
    /\ raw_id \in RawIds
    /\ scope \in Tenants \cup {None}
    /\ db_fails \in 0..3
    /\ resolved = NoEmployee
    /\ resolvePc = "call"

\* a caller resolves a detected id
Resolve ==
    /\ resolvePc = "call"
    /\ resolved' = find_employee_by_id(raw_id, scope, employees, db_fails)
    /\ resolvePc' = "returned"
    /\ UNCHANGED <<employees, raw_id, scope, db_fails>>
    /\ UNCHANGED <<settledVars, identifyVars, poolVars, walkVars>>

NextResolve == Resolve

\* ------------------------------------------------------------------------
\* process_single_file: identification           (src/dms/tasks.py)
\* ------------------------------------------------------------------------
\* the thread of the caller of extract_employee_from_datamatrix: the pool's
\* workers are threads of ThreadPoolExecutor, never the main thread
PoolThread == "ThreadPoolExecutor"

\* result = {'success': False, 'error': None, 'codes': [], 'employee_ids': []}
NoResult == [success |-> FALSE, error |-> None, codes |-> 0, employee_ids |-> <<>>]

\* what the first page of a PDF holds: a code with an employee number, a
\* code without one, no code, a page whose decoding exceeds the timeout, a
\* page that cannot be rendered
PageKinds == {"employee_code", "other_code", "no_code", "slow", "corrupt"}

NoPage == [kind |-> "no_code", id |-> <<>>]

FirstPages ==
    {[kind |-> k, id |-> IF k = "employee_code" THEN <<"7">> ELSE <<>>] :
        k \in PageKinds}

\* the body under the alarm: the first page is rendered and decoded, each
\* code is appended to 'codes' and its employee number to 'employee_ids';
\* TimeoutError gives success True with the error 'Timeout', any other
\* exception gives success False
DecodeFirstPage(thread, page) ==
    CASE page.kind = "employee_code" ->
             [success |-> TRUE, error |-> None, codes |-> 1,
              employee_ids |-> <<page.id>>]
      [] page.kind = "other_code" ->
             [success |-> TRUE, error |-> None, codes |-> 1,
              employee_ids |-> <<>>]
      [] page.kind = "no_code" ->
             [success |-> TRUE, error |-> None, codes |-> 0,
              employee_ids |-> <<>>]
      [] page.kind = "slow" ->
             [success |-> TRUE, error |-> "Timeout", codes |-> 0,
              employee_ids |-> <<>>]
      [] page.kind = "corrupt" ->
             [success |-> FALSE, error |-> "Exception", codes |-> 0,
              employee_ids |-> <<>>]

\* extract_employee_from_datamatrix(file_path): signal.signal(SIGALRM, ...)
\* raises ValueError in every thread but the main one, before the PDF is
\* opened, and "except Exception" returns the result with success False;
\* in the main thread the first page is decoded under the alarm
extract_employee_from_datamatrix(thread, page) ==
    IF thread # "MainThread"
    THEN [success |-> FALSE, error |-> "ValueError", codes |-> 0,
          employee_ids |-> <<>>]
    ELSE DecodeFirstPage(thread, page)

\* the detected id of a segment: None, or an employee number
SegmentIds == {<<>>, <<"7">>, <<"0", "7">>}

\* the candidate files: a multi-page personnel PDF that the splitter cut
\* into segments, a PDF that was not split, a file that is no PDF;
\* is_personnel is what classify_sage_document says of the file name
Candidates ==
    {[suffix |-> ".pdf", is_personnel |-> TRUE, first_page |-> NoPage,
      split_results |-> r] :
        r \in UNION {[1..n -> SegmentIds] : n \in 2..MaxSegments}}
    \cup
    {[suffix |-> ".pdf", is_personnel |-> b, first_page |-> p,
      split_results |-> <<>>] : b \in BOOLEAN, p \in FirstPages}
    \cup
    {[suffix |-> ".docx", is_personnel |-> b, first_page |-> NoPage,
      split_results |-> <<>>] : b \in BOOLEAN}

\* variant: every split Document is ASSIGNED
SplitStatusAssigned(split_employee) == "ASSIGNED"

\* split_status = 'ASSIGNED' if split_employee else 'REVIEW_NEEDED'
SplitStatus(split_employee) ==
    IF split_employee # NoEmployee THEN "ASSIGNED" ELSE "REVIEW_NEEDED"

\* "for emp_id in dm_result['employee_ids']": the first id that resolves
RECURSIVE FirstResolved(_, _, _, _)
FirstResolved(ids, tenant, rows, fails) ==
    IF ids = <<>> THEN NoEmployee
    ELSE IF find_employee_by_id(Head(ids), tenant, rows, fails) # NoEmployee
         THEN find_employee_by_id(Head(ids), tenant, rows, fails)
    ELSE FirstResolved(Tail(ids), tenant, rows, fails)

\* the status and the employee of an unsplit PDF, from the extraction's
\* result and the file name
PdfIdentity(dm, is_personnel, tenant, rows, fails) ==
    IF dm.success /\ dm.employee_ids # <<>>
    THEN LET employee == FirstResolved(dm.employee_ids, tenant, rows, fails) IN
         [employee |-> employee,
          status |-> IF employee # NoEmployee THEN "ASSIGNED" ELSE "REVIEW_NEEDED"]
    ELSE IF dm.success /\ dm.codes > 0
    THEN [employee |-> NoEmployee, status |-> "REVIEW_NEEDED"]
    ELSE [employee |-> NoEmployee,
          status |-> IF is_personnel THEN "REVIEW_NEEDED" ELSE "COMPANY"]

\* status = 'COMPANY' if not is_personnel else 'UNASSIGNED'
OtherIdentity(is_personnel) ==
    [employee |-> NoEmployee,
     status |-> IF is_personnel THEN "UNASSIGNED" ELSE "COMPANY"]

NoCandidate == [suffix |-> "", is_personnel |-> FALSE, first_page |-> NoPage,
                split_results |-> <<>>]

\* the identification at rest (the value of its variables under the other
\* specifications)
IdleIdentify ==
    /\ candidate = NoCandidate
    /\ idPc = "idle"
    /\ seg_i = 0
    /\ dm_result = NoResult
    /\ new_docs = <<>>
    /\ id_errors = 0

InitIdentify ==
    /\ candidate \in Candidates
    /\ idPc = "start"
    /\ seg_i = 0
    /\ dm_result = NoResult
    /\ new_docs = <<>>
    /\ id_errors = 0

\* the Employee table, the file's tenant and the database's health during
\* the processing of the file
InitDirectory ==
    /\ employees \in Registries
    /\ scope \in Tenants
    /\ db_fails \in 0..1
    /\ raw_id = <<>>
    /\ resolved = NoEmployee
    /\ resolvePc = "idle"

\* "if page_count > 1 ... split_results = split_pdf_by_datamatrix(...)":
\* with more than one split file the split loop runs, another PDF goes to
\* the extraction, a file that is no PDF is created as it is
SplitCheck ==
    /\ idPc = "start"
    /\ idPc' = IF candidate.suffix # ".pdf" THEN "create"
               ELSE IF Len(candidate.split_results) > 1 THEN "split"
               ELSE "extract"
    /\ seg_i' = 1
    /\ UNCHANGED <<candidate, dm_result, new_docs, id_errors>>
    /\ UNCHANGED <<settledVars, resolveVars, poolVars, walkVars>>

\* one pass of "for split_info in split_results": look the segment's id up,
\* create the Document; an exception of the creation ends the file in
\* "except Exception"
CreateSplitDocument ==
    /\ idPc = "split"
    /\ seg_i <= Len(candidate.split_results)
    /\ LET emp_id == candidate.split_results[seg_i]
           split_employee == find_employee_by_id(emp_id, scope, employees, db_fails)
       IN \/ /\ new_docs' = Append(new_docs,
                     [employee |-> split_employee,
                      status |-> SplitStatus(split_employee),
                      employee_id_from_datamatrix |-> emp_id,
                      split |-> TRUE])
             /\ seg_i' = seg_i + 1
             /\ idPc' = IF seg_i = Len(candidate.split_results) THEN "done"
                                                                ELSE "split"
             /\ UNCHANGED id_errors
          \/ /\ id_errors' = id_errors + 1
             /\ idPc' = "error"
             /\ UNCHANGED <<new_docs, seg_i>>
    /\ UNCHANGED <<candidate, dm_result>>
    /\ UNCHANGED <<settledVars, resolveVars, poolVars, walkVars>>

\* dm_result = extract_employee_from_datamatrix(str(file_path)), called in
\* the worker's thread
ExtractCodes ==
    /\ idPc = "extract"
    /\ dm_result' = extract_employee_from_datamatrix(PoolThread, candidate.first_page)
    /\ idPc' = "create"
    /\ UNCHANGED <<candidate, seg_i, new_docs, id_errors>>
    /\ UNCHANGED <<settledVars, resolveVars, poolVars, walkVars>>

\* the unsplit path: status and employee, then Document.objects.create; an
\* exception of the creation ends the file in "except Exception"
CreateDocument ==
    /\ idPc = "create"
    /\ LET identity == IF candidate.suffix = ".pdf"
                       THEN PdfIdentity(dm_result, candidate.is_personnel,
                                        scope, employees, db_fails)
                       ELSE OtherIdentity(candidate.is_personnel)
       IN \/ /\ new_docs' = Append(new_docs,
                     [employee |-> identity.employee,
                      status |-> identity.status,
                      employee_id_from_datamatrix |-> <<>>,
                      split |-> FALSE])
             /\ idPc' = "done"
             /\ UNCHANGED id_errors
          \/ /\ id_errors' = id_errors + 1
             /\ idPc' = "error"
             /\ UNCHANGED new_docs
    /\ UNCHANGED <<candidate, seg_i, dm_result>>
    /\ UNCHANGED <<settledVars, resolveVars, poolVars, walkVars>>

NextIdentify ==
    \/ SplitCheck
    \/ CreateSplitDocument
    \/ ExtractCodes
    \/ CreateDocument

\* ------------------------------------------------------------------------
\* The threads of the pool in process_single_file: the two mutexes and the
\* alarm of the process
\* ------------------------------------------------------------------------
\* the threads of "ThreadPoolExecutor(max_workers=max_workers)"
Workers == 1..MaxWorkers

\* "futures = {executor.submit(process_single_file, f): f for f in
\* new_file_paths}": one file more than there are threads, so that a thread
\* takes a second file
PoolFiles == MaxWorkers + 1

\* digests of the submitted files
Hashes == {"h1", "h2"}

\* every function that runs in a thread of the executor runs off the main
\* thread
ThreadOf(w) == PoolThread

\* "threading.Lock()": a lock that no thread holds
Unlocked == 0

\* "signal.alarm(0)": no alarm is pending in the process
NoAlarm == 0

\* variant: the with-block is still open when the next one is entered
with_nested(w) == w

\* "with lock:" leaves the lock free when the block is left, by its end, by
\* a return or by an exception
with_exit(w) == Unlocked

\* "signal.signal(signal.SIGALRM, timeout_handler); signal.alarm(
\* timeout_seconds)": signal.signal raises ValueError in every thread but
\* the main thread, and signal.alarm is not reached then
signal_alarm(thread, w, alarm) ==
    IF thread = "MainThread" THEN w ELSE alarm

\* the positions at which a thread is about to enter "with counter_lock"
CountPcs == {"count_skipped", "count_processed", "count_error"}

\* the positions at which a thread decodes the barcodes of a page
DecodePcs == {"split_decode"}

IdlePool ==
    /\ submitted = 0
    /\ poolPc = [w \in Workers |-> "idle"]
    /\ pool_hash = [w \in Workers |-> None]
    /\ hashes_lock = Unlocked
    /\ counter_lock = Unlocked
    /\ known_hashes_by_tenant = {}
    /\ processed_files = {}
    /\ tally = ZeroCounters
    /\ sigalrm = NoAlarm

\* the hash set is loaded from the ProcessedFile rows before the pool starts
InitPool ==
    /\ submitted = PoolFiles
    /\ poolPc = [w \in Workers |-> "idle"]
    /\ pool_hash = [w \in Workers |-> None]
    /\ hashes_lock = Unlocked
    /\ counter_lock = Unlocked
    /\ processed_files \in {{}, {"h1"}}
    /\ known_hashes_by_tenant = processed_files
    /\ tally = ZeroCounters
    /\ sigalrm = NoAlarm

\* a thread takes the next submitted file: "file_hash =
\* calculate_sha256_chunked(str(file_path))", which may raise
TakeFile(w) ==
    /\ poolPc[w] = "idle"
    /\ submitted > 0
    /\ submitted' = submitted - 1
    /\ \/ \E h \in Hashes :
             /\ pool_hash' = [pool_hash EXCEPT ![w] = h]
             /\ poolPc' = [poolPc EXCEPT ![w] = "hash_check"]
       \/ /\ pool_hash' = [pool_hash EXCEPT ![w] = None]
          /\ poolPc' = [poolPc EXCEPT ![w] = "count_error"]
    /\ UNCHANGED <<hashes_lock, counter_lock, known_hashes_by_tenant,
                   processed_files, tally, sigalrm>>
    /\ UNCHANGED <<settledVars, resolveVars, identifyVars, walkVars>>

\* "with hashes_lock:" is entered, before the check or before the add
AcquireHashesLock(w) ==
    /\ poolPc[w] \in {"hash_check", "hash_add"}
    /\ hashes_lock = Unlocked
    /\ hashes_lock' = w
    /\ poolPc' = [poolPc EXCEPT ![w] = IF @ = "hash_check"
                                         THEN "in_hash_check"
                                         ELSE "in_hash_add"]
    /\ UNCHANGED <<submitted, pool_hash, counter_lock, known_hashes_by_tenant,
                   processed_files, tally, sigalrm>>
    /\ UNCHANGED <<settledVars, resolveVars, identifyVars, walkVars>>

\* "is_known = file_hash in known_hashes", and the block is left
HashCheckInThread(w) ==
    /\ poolPc[w] = "in_hash_check"
    /\ hashes_lock = w
    /\ hashes_lock' = with_exit(w)
    /\ poolPc' = [poolPc EXCEPT ![w] =
                     IF pool_hash[w] \in known_hashes_by_tenant
                         THEN "count_skipped" ELSE "db_check"]
    /\ UNCHANGED <<submitted, pool_hash, counter_lock, known_hashes_by_tenant,
                   processed_files, tally, sigalrm>>
    /\ UNCHANGED <<settledVars, resolveVars, identifyVars, walkVars>>

\* "if ProcessedFile.objects.filter(tenant=tenant, sha256_hash=file_hash)
\* .exists()"; a new file is a bundle that is split, a single file, or its
\* processing raises
LedgerCheck(w) ==
    /\ poolPc[w] = "db_check"
    /\ IF pool_hash[w] \in processed_files
           THEN poolPc' = [poolPc EXCEPT ![w] = "count_skipped"]
           ELSE \E next \in {"split_decode", "extract", "count_error"} :
                    poolPc' = [poolPc EXCEPT ![w] = next]
    /\ UNCHANGED <<submitted, pool_hash, hashes_lock, counter_lock,
                   known_hashes_by_tenant, processed_files, tally, sigalrm>>
    /\ UNCHANGED <<settledVars, resolveVars, identifyVars, walkVars>>

\* split_pdf_by_datamatrix: "decoded = decode(img)" on every page; its
\* timeout_per_page is not used and no alarm is set
SplitDecode(w) ==
    /\ poolPc[w] = "split_decode"
    /\ poolPc' = [poolPc EXCEPT ![w] = "persist"]
    /\ UNCHANGED <<submitted, pool_hash, hashes_lock, counter_lock,
                   known_hashes_by_tenant, processed_files, tally, sigalrm>>
    /\ UNCHANGED <<settledVars, resolveVars, identifyVars, walkVars>>

\* "dm_result = extract_employee_from_datamatrix(str(file_path))": the
\* alarm is requested in the thread of the call; the function returns
\* without a decoded code when the request raises
ExtractInThread(w) ==
    /\ poolPc[w] = "extract"
    /\ sigalrm' = signal_alarm(ThreadOf(w), w, sigalrm)
    /\ poolPc' = [poolPc EXCEPT ![w] = "persist"]
    /\ UNCHANGED <<submitted, pool_hash, hashes_lock, counter_lock,
                   known_hashes_by_tenant, processed_files, tally>>
    /\ UNCHANGED <<settledVars, resolveVars, identifyVars, walkVars>>

\* the Documents and "ProcessedFile.objects.create(...)", which may raise
PersistInThread(w) ==
    /\ poolPc[w] = "persist"
    /\ \/ /\ processed_files' = processed_files \cup {pool_hash[w]}
          /\ poolPc' = [poolPc EXCEPT ![w] = "hash_add"]
       \/ /\ processed_files' = processed_files
          /\ poolPc' = [poolPc EXCEPT ![w] = "count_error"]
    /\ UNCHANGED <<submitted, pool_hash, hashes_lock, counter_lock,
                   known_hashes_by_tenant, tally, sigalrm>>
    /\ UNCHANGED <<settledVars, resolveVars, identifyVars, walkVars>>

\* "known_hashes_by_tenant[tenant_code].add(file_hash)", and the block is
\* left
HashAdd(w) ==
    /\ poolPc[w] = "in_hash_add"
    /\ hashes_lock = w
    /\ known_hashes_by_tenant' = known_hashes_by_tenant \cup {pool_hash[w]}
    /\ hashes_lock' = with_exit(w)
    /\ poolPc' = [poolPc EXCEPT ![w] = "count_processed"]
    /\ UNCHANGED <<submitted, pool_hash, counter_lock, processed_files,
                   tally, sigalrm>>
    /\ UNCHANGED <<settledVars, resolveVars, identifyVars, walkVars>>

\* "with counter_lock:" is entered: for a skipped file, for a processed file
\* or in the handler of "except Exception"
AcquireCounterLock(w) ==
    /\ poolPc[w] \in CountPcs
    /\ counter_lock = Unlocked
    /\ counter_lock' = w
    /\ poolPc' = [poolPc EXCEPT ![w] =
                     CASE @ = "count_skipped" -> "in_count_skipped"
                       [] @ = "count_processed" -> "in_count_processed"
                       [] OTHER -> "in_count_error"]
    /\ UNCHANGED <<submitted, pool_hash, hashes_lock, known_hashes_by_tenant,
                   processed_files, tally, sigalrm>>
    /\ UNCHANGED <<settledVars, resolveVars, identifyVars, walkVars>>

\* the counter of the file is raised, the block is left and
\* process_single_file returns
Count(w) ==
    /\ poolPc[w] \in {"in_count_skipped", "in_count_processed",
                      "in_count_error"}
    /\ counter_lock = w
    /\ tally' =
          CASE poolPc[w] = "in_count_skipped" ->
                   [tally EXCEPT !.already_processed_count = @ + 1]
            [] poolPc[w] = "in_count_processed" ->
                   [tally EXCEPT !.processed_count = @ + 1]
            [] OTHER -> [tally EXCEPT !.error_count = @ + 1]
    /\ counter_lock' = with_exit(w)
    /\ poolPc' = [poolPc EXCEPT ![w] = "idle"]
    /\ pool_hash' = [pool_hash EXCEPT ![w] = None]
    /\ UNCHANGED <<submitted, hashes_lock, known_hashes_by_tenant,
                   processed_files, sigalrm>>
    /\ UNCHANGED <<settledVars, resolveVars, identifyVars, walkVars>>

NextPool ==
    \E w \in Workers :
        \/ TakeFile(w)
        \/ AcquireHashesLock(w)
        \/ HashCheckInThread(w)
        \/ LedgerCheck(w)
        \/ SplitDecode(w)
        \/ ExtractInThread(w)
        \/ PersistInThread(w)
        \/ HashAdd(w)
        \/ AcquireCounterLock(w)
        \/ Count(w)

\* ------------------------------------------------------------------------
\* The directory walk of _run_sage_scan
\* ------------------------------------------------------------------------
\* the characters of a folder name: digits, a letter and the line feed
FolderChars == {"1", "a", "\n"}

\* the characters "\d" matches
PatternDigits == {"1"}

\* "{8}" of tenant_folder_pattern
TenantCodeLen == 8

\* n digits
DigitRun(n) == [i \in 1..n |-> "1"]

\* folder names: digits only, digits and one more character, a character and
\* digits
FolderNames ==
    {DigitRun(n) : n \in 0..MaxFolderLen}
        \cup {DigitRun(n) \o <<c>> : n \in 0..(MaxFolderLen - 1),
                                     c \in FolderChars \ PatternDigits}
        \cup {<<c>> \o DigitRun(n) : n \in 0..(MaxFolderLen - 1),
                                     c \in FolderChars \ PatternDigits}

\* "$" of a pattern: the end of the string, or the place before a line feed
\* that ends the string
AtDollar(name, k) ==
    \/ k = Len(name)
    \/ k = Len(name) - 1 /\ name[Len(name)] = "\n"

\* "tenant_folder_pattern = re.compile(r'^\d{8}$')",
\* "tenant_folder_pattern.match(tenant_folder.name)"
tenant_folder_pattern(name) ==
    /\ Len(name) >= TenantCodeLen
    /\ \A i \in 1..TenantCodeLen : name[i] \in PatternDigits
    /\ AtDollar(name, TenantCodeLen)

\* str.lower() on the names of the archive
LowerCase ==
    ("REPORT" :> "report") @@ (".PDF" :> ".pdf") @@ ("Thumbs" :> "thumbs")
        @@ ("Desktop" :> "desktop") @@ (".DS_Store" :> ".ds_store")

lower(str) == IF str \in DOMAIN LowerCase THEN LowerCase[str] ELSE str

\* file names as Path splits them: <<stem, suffix>>; a name that starts
\* with a dot and has no other dot has no suffix
FileNames ==
    {<<"report", ".pdf">>, <<"REPORT", ".PDF">>, <<"Thumbs", ".db">>,
     <<"thumbs", ".db">>, <<"Desktop", ".ini">>, <<".DS_Store", "">>,
     <<"setup", ".exe">>, <<"report", "">>}

supported_extensions ==
    {".pdf", ".doc", ".docx", ".xls", ".xlsx", ".jpg", ".jpeg", ".png",
     ".tiff", ".txt", ".csv"}

skip_files == {<<"thumbs", ".db">>, <<"desktop", ".ini">>, <<".ds_store", "">>}

\* "file_path.name.lower()"
NameLower(name) == <<lower(name[1]), lower(name[2])>>

IdleWalk ==
    /\ tenant_folder = [name |-> <<>>, is_dir |-> FALSE]
    /\ archive_file = [name |-> <<"report", ".pdf">>, nested |-> FALSE]
    /\ tenant_rows = {}
    /\ tenant_cache = {}
    /\ queued_paths = {}
    /\ walkPc = "done"

\* one entry below the archive root with one file below it; the Tenant of
\* the entry's name is unknown, active or inactive
InitWalk ==
    /\ tenant_folder \in [name : FolderNames, is_dir : BOOLEAN]
    /\ archive_file \in [name : FileNames, nested : BOOLEAN]
    /\ tenant_rows \in
          {{}} \cup {{[code |-> tenant_folder.name, is_active |-> a]} :
                         a \in BOOLEAN}
    /\ tenant_cache = {}
    /\ queued_paths = {}
    /\ walkPc = "load"

\* "for tenant in Tenant.objects.filter(is_active=True):
\* tenant_cache[tenant.code] = tenant"
LoadTenants ==
    /\ walkPc = "load"
    /\ tenant_cache' = {t.code : t \in {r \in tenant_rows : r.is_active}}
    /\ walkPc' = "folder"
    /\ UNCHANGED <<tenant_folder, archive_file, tenant_rows, queued_paths>>
    /\ UNCHANGED <<settledVars, resolveVars, identifyVars, poolVars>>

\* "for tenant_folder in sage_path.iterdir():" with the is_dir and pattern
\* test and "Tenant.objects.get_or_create(code=tenant_code, ...)"
VisitFolder ==
    /\ walkPc = "folder"
    /\ IF ~tenant_folder.is_dir \/ ~tenant_folder_pattern(tenant_folder.name)
           THEN /\ walkPc' = "done"
                /\ UNCHANGED <<tenant_rows, tenant_cache>>
           ELSE /\ walkPc' = "files"
                /\ IF tenant_folder.name \in tenant_cache
                       THEN UNCHANGED <<tenant_rows, tenant_cache>>
                       ELSE /\ tenant_rows' =
                                 IF \E r \in tenant_rows :
                                        r.code = tenant_folder.name
                                     THEN tenant_rows
                                     ELSE tenant_rows \cup
                                              {[code |-> tenant_folder.name,
                                                is_active |-> TRUE]}
                            /\ tenant_cache' =
                                 tenant_cache \cup {tenant_folder.name}
    /\ UNCHANGED <<tenant_folder, archive_file, queued_paths>>
    /\ UNCHANGED <<settledVars, resolveVars, identifyVars, poolVars>>

\* "for file_path in tenant_folder.rglob('*'):" with the skip_files and
\* supported_extensions tests and "new_file_paths.append((file_path,
\* tenant_code))"
VisitFile ==
    /\ walkPc = "files"
    /\ queued_paths' =
          IF \/ NameLower(archive_file.name) \in skip_files
             \/ lower(archive_file.name[2]) \notin supported_extensions
              THEN queued_paths
              ELSE queued_paths \cup
                       {[file_path |-> archive_file,
                         tenant_code |-> tenant_folder.name]}
    /\ walkPc' = "done"
    /\ UNCHANGED <<tenant_folder, archive_file, tenant_rows, tenant_cache>>
    /\ UNCHANGED <<settledVars, resolveVars, identifyVars, poolVars>>

NextWalk == LoadTenants \/ VisitFolder \/ VisitFile

IdleExtra == IdleResolve /\ IdleIdentify /\ IdlePool /\ IdleWalk

IdleRest == IdleRules /\ IdleFiling /\ IdleRetention /\ IdleExtra

InitSpecLock == InitLock /\ IdleSeg /\ IdleScan /\ IdleRest

SpecLock == InitSpecLock /\ [][NextLock]_vars

\* the store removes a key whose time is over, whatever the tasks do
SpecLockExpiry == InitSpecLock /\ [][NextLock]_vars /\ WF_vars(Expire)

InitSpecSeg == InitLock /\ InitSeg /\ IdleScan /\ IdleRest

SpecSeg == InitSpecSeg /\ [][NextSeg]_vars

InitSpecScan == InitLock /\ IdleSeg /\ InitScan /\ IdleRest

SpecScan == InitSpecScan /\ [][NextScan]_vars

InitSpecRules ==
    /\ InitLock /\ IdleSeg /\ IdleScan
    /\ InitRules /\ IdleFiling /\ IdleRetention /\ IdleExtra

InitSpecFiling ==
    /\ InitLock /\ IdleSeg /\ IdleScan
    /\ IdleRules /\ InitFiling /\ IdleRetention /\ IdleExtra

SpecFiling == InitSpecFiling /\ [][NextFiling]_vars

InitSpecRetention ==
    /\ InitLock /\ IdleSeg /\ IdleScan
    /\ IdleRules /\ IdleFiling /\ InitRetention /\ IdleExtra

SpecRetention == InitSpecRetention /\ [][NextRetention]_vars

SpecRules == InitSpecRules /\ [][NextRules]_vars

InitSpecResolve ==
    /\ InitLock /\ IdleSeg /\ IdleScan
    /\ IdleRules /\ IdleFiling /\ IdleRetention /\ InitResolve
    /\ IdleIdentify /\ IdlePool /\ IdleWalk

SpecResolve == InitSpecResolve /\ [][NextResolve]_vars

InitSpecIdentify ==
    /\ InitLock /\ IdleSeg /\ IdleScan
    /\ IdleRules /\ IdleFiling /\ IdleRetention /\ InitDirectory
    /\ InitIdentify /\ IdlePool /\ IdleWalk

SpecIdentify == InitSpecIdentify /\ [][NextIdentify]_vars

InitSpecPool ==
    /\ InitLock /\ IdleSeg /\ IdleScan
    /\ IdleRules /\ IdleFiling /\ IdleRetention /\ IdleResolve
    /\ IdleIdentify /\ InitPool /\ IdleWalk

SpecPool == InitSpecPool /\ [][NextPool]_vars

InitSpecWalk ==
    /\ InitLock /\ IdleSeg /\ IdleScan
    /\ IdleRules /\ IdleFiling /\ IdleRetention /\ IdleResolve
    /\ IdleIdentify /\ IdlePool /\ InitWalk

SpecWalk == InitSpecWalk /\ [][NextWalk]_vars

\* t is inside _run_sage_scan
Running(t) == pc[t] \in {"scan", "finish"}

\* t is inside the with-block of distributed_lock
InWith(t) == pc[t] \in {"with", "scan", "finish", "finally"}

\* ------------------------------------------------------------------------
\* Claims on the scan
\* ------------------------------------------------------------------------
ArchiveContents == {content[f] : f \in Files}

FilesOf(c) == {f \in Files : content[f] = c}

\* the paths from which Documents of content c were created
SourcesOf(c) == {d.original_path : d \in {x \in documents : x.sha256_hash[1] = c}}

NoFaultBefore(r) == \A i \in 1..Len(faultRuns) : faultRuns[i] >= r

\* C5 as stated: after a first run without I/O failure, each content of
\* the archive has Documents from exactly one of its files and exactly one
\* ledger row, no file ended in error, and every other file of the same
\* content was counted as skipped, whatever the interleaving of the workers.
C5_OneDocumentPerContent ==
    (run = 1 /\ phase = "idle" /\ faultRuns = <<>>) =>
        /\ \A c \in ArchiveContents :
              /\ Cardinality(SourcesOf(c)) = 1
              /\ Cardinality({l \in ledger : l.sha256_hash = c}) = 1
        /\ scan_job.error_files = 0
        /\ scan_job.skipped_files
               = Cardinality(Files) - Cardinality(ArchiveContents)

AtMostOneIdentified(f) ==
    \/ Len(ContentIds(content[f])) <= 1
    \/ Len(WithEmployee(GroupPages(ContentIds(content[f])))) <= 1

\* C8: for a file with at most one identified segment the splitter returns
\* no segments, and when the file has been processed there is exactly one
\* Document of it, holding all its pages, and the ledger row of its hash
\* references that Document.
C8_NoSplitSingleDocument ==
    \A f \in Files : AtMostOneIdentified(f) =>
        /\ split_results[f] = <<>>
        /\ resF[f] = "processed" =>
              /\ WholeDocument(f) \in documents
              /\ {d \in documents : d.original_path = f /\ d.created_at = run}
                     = {WholeDocument(f)}
              /\ {l \in ledger : l.sha256_hash = file_hash(f)}
                     = {[sha256_hash |-> file_hash(f), original_path |-> f,
                         document |-> WholeDocument(f), processed_at |-> run]}

C8_Witness ==
    \E f \in Files : \E g \in Files \ {f} :
        /\ content[f] = "onlyA" /\ content[g] = "blank"
        /\ resF[f] = "processed" /\ resF[g] = "processed"
        /\ WholeDocument(f) \in documents
        /\ WholeDocument(g) \in documents

\* C10 as stated: a bundle is recorded in the ledger as processed (split)
\* only if a Document exists for every one of its segments, and a file whose
\* processing failed leaves no segment Documents behind.
C10_AllSegmentsOrNothing ==
    \A f \in Files :
        /\ (\E l \in ledger : /\ l.original_path = f
                              /\ l.document = NoDocument
                              /\ l.processed_at = run) =>
              \A k \in 1..Len(SegmentsToWrite(ContentIds(content[f]))) :
                  \E d \in documents :
                      /\ d.original_path = f
                      /\ d.pages = SegmentsToWrite(ContentIds(content[f]))[k].pages
        /\ resF[f] = "error" =>
              ~\E d \in documents :
                  /\ d.original_path = f /\ d.split_from # 0 /\ d.created_at = run

\* ------------------------------------------------------------------------
\* Claims on the lock
\* ------------------------------------------------------------------------

\* C1: of the tasks that reached the store and whose key was neither
\* removed nor released, at most one got acquired=True; a task that got
\* acquired=False lost to a task that did acquire, is not yielded the lock,
\* returns 'skipped', and creates no ScanJob, no Document and no ledger row.
C1_OneAcquiresOtherSkips ==
    /\ \A a \in Tasks : \A b \in Tasks \ {a} :
          ~(/\ acquired[a] = "True" /\ acquired[b] = "True"
            /\ InWith(a) /\ InWith(b)
            /\ ~lockLost[a] /\ ~lockLost[b])
    /\ \A t \in Tasks : acquired[t] = "None" =>
          /\ \E u \in Tasks \ {t} : acquired[u] = "True"
          /\ ~yielded[t]
          /\ ~Running(t)
          /\ scanJob[t] = "none"
          /\ created[t] = 0
          /\ pc[t] = "done" => outcome[t] = "skipped"

C1_Witness ==
    \E a \in Tasks : \E b \in Tasks \ {a} :
        /\ acquired[a] = "True" /\ Running(a) /\ ~lockLost[a]
        /\ acquired[b] = "None" /\ pc[b] = "done" /\ outcome[b] = "skipped"

\* C2 as stated: no two runs are ever inside _run_sage_scan together,
\* whatever acquire, expiry, release and admin reset do.
C2_MutualExclusionAlways ==
    \A a \in Tasks : \A b \in Tasks \ {a} : ~(Running(a) /\ Running(b))

\* C2 amended: two runs are inside _run_sage_scan together only if the key
\* of one of them was removed while it ran (expiry, admin reset) or one of
\* them went on without the lock after a connection error.
C2_ExclusionWhileKeyStored ==
    \A a \in Tasks : \A b \in Tasks \ {a} :
        (Running(a) /\ Running(b)) =>
            \/ lockLost[a] \/ lockLost[b]
            \/ acquired[a] = "unbound" \/ acquired[b] = "unbound"

\* both inside the run: A's key expired or was reset, then B acquired
C2_Witness ==
    \E a \in Tasks : \E b \in Tasks \ {a} :
        /\ Running(a) /\ acquired[a] = "True" /\ lockLost[a]
        /\ Running(b) /\ acquired[b] = "True" /\ ~lockLost[b]
        /\ lockKey = lock_value(b)

\* C3: the key of a task that acquired it and is still inside the with-block
\* stays stored unless it expired or was reset: no other task's release
\* deletes it.
C3_ReleaseKeepsForeignKey ==
    \A t \in Tasks :
        (acquired[t] = "True" /\ InWith(t) /\ ~lockLost[t]) =>
            lockKey = lock_value(t)

\* A's key expired, B acquired, A has left its with-block, B's key is stored
C3_Witness ==
    \E a \in Tasks : \E b \in Tasks \ {a} :
        /\ acquired[a] = "True" /\ lockLost[a] /\ pc[a] = "done"
        /\ acquired[b] = "True" /\ Running(b) /\ ~lockLost[b]
        /\ lockKey = lock_value(b)

\* C4 as stated: after a connection error at acquisition the task is yielded
\* True, its body runs, and the task ends neither skipped nor failed by the
\* outage.
C4_OutageRunNotFailed ==
    \A t \in Tasks : (acquired[t] = "unbound" /\ pc[t] # "start") =>
        /\ yielded[t]
        /\ pending[t] # "skipped"
        /\ pc[t] = "done" => outcome[t] \notin {"skipped", "UnboundLocalError"}

\* ------------------------------------------------------------------------
\* Claims on the segmentation
\* ------------------------------------------------------------------------
RECURSIVE ConcatPages(_)
ConcatPages(segs) ==
    IF segs = <<>> THEN <<>> ELSE Head(segs).pages \o ConcatPages(Tail(segs))

\* the last id decoded on the pages before page p (0-based), NoId if none
RECURSIVE LastIdBefore(_)
LastIdBefore(p) ==
    IF p = 0 THEN NoId
    ELSE IF segIds[p] # NoId THEN segIds[p] ELSE LastIdBefore(p - 1)

StartsSegment(p) ==
    p = 0 \/ (segIds[p + 1] # NoId /\ segIds[p + 1] # LastIdBefore(p))

\* the segment list as the page loop has built it so far
SegmentsSoFar == CloseSegments([segments |-> segments, current |-> current_segment])

ExampleIds == <<"A", "A", NoId, "B", "B">>

\* C7: at every point of the page loop the segments are non-empty, in page
\* order, and their pages concatenate to the pages walked so far; a segment
\* starts exactly at page 0 and at every page whose id is non-null and
\* differs from the current segment's id; pages without id join the current
\* segment; ids [A, A, none, B, B] give pages 0-2 for A and pages 3-4 for B.
C7_SegmentsPartitionPages ==
    segPc = "pages" =>
        LET segs == SegmentsSoFar IN
        /\ ConcatPages(segs) = [i \in 1..page_num |-> i - 1]
        /\ \A k \in 1..Len(segs) : segs[k].pages # <<>>
        /\ {segs[k].pages[1] : k \in 1..Len(segs)}
               = {p \in 0..(page_num - 1) : StartsSegment(p)}
        /\ \A k \in 1..Len(segs) :
              /\ segs[k].employee_id = segIds[segs[k].pages[1] + 1]
              /\ \A i \in 1..Len(segs[k].pages) :
                    segIds[segs[k].pages[i] + 1] \in {NoId, segs[k].employee_id}
        /\ (segIds = ExampleIds /\ page_num = Len(segIds)) =>
              segs = << [employee_id |-> "A", pages |-> <<0, 1, 2>>],
                        [employee_id |-> "B", pages |-> <<3, 4>>] >>

C7_Witness ==
    /\ segIds = ExampleIds
    /\ segPc = "write"
    /\ segments = << [employee_id |-> "A", pages |-> <<0, 1, 2>>],
                     [employee_id |-> "B", pages |-> <<3, 4>>] >>

\* C9 as stated: whenever a splitter has split a bundle (and no write
\* failed), leading pages without id are in the first produced segment and
\* every page of the bundle is in exactly one produced segment.
C9_EveryPageInOneSegment ==
    (segPc = "done" /\ result # <<>> /\ ~writeFailed) =>
        LET pages == ConcatPages(result) IN
        /\ Len(pages) = Len(segIds)
        /\ {pages[i] : i \in 1..Len(pages)} = 0..(Len(segIds) - 1)
        /\ result[1].pages[1] = 0


\* ------------------------------------------------------------------------
\* Claims on the matching rules
\* ------------------------------------------------------------------------

\* the active rules of the Document's scope and the global ones
InScope == {i \in 1..Len(rules) :
               rules[i].is_active /\ rules[i].tenant \in {None, document.tenant}}

\* C11: once the rules were applied, the applied rule matches and no
\* matching active rule of the Document's scope has a higher priority,
\* whatever the registration order; every other rule that was evaluated did
\* not match, so nothing is evaluated after the first match; and the
\* Document is what that one rule made of it, also when it changed nothing.
\* Without a matching rule the Document is unchanged.
C11_HighestPriorityRuleApplied ==
    rulePc = "classified" =>
        /\ applied # 0 =>
              /\ rules[applied].matches
              /\ \A i \in InScope :
                    rules[i].matches => rules[i].priority <= rules[applied].priority
              /\ \A i \in evaluated \ {applied} : ~rules[i].matches
              /\ caller = "auto_classify_document" =>
                    document = ApplyRule(before, rules[applied])
        /\ applied = 0 =>
              /\ \A i \in InScope : ~rules[i].matches
              /\ document = before

\* the rule registered first matches and would set a field, the rule
\* registered second has the higher priority, matches and changes nothing
C11_Witness ==
    /\ rulePc = "classified"
    /\ caller = "auto_classify_document"
    /\ Len(rules) = 2
    /\ applied = 2
    /\ rules[1].is_active /\ rules[1].matches
    /\ rules[1].priority < rules[2].priority
    /\ document = before
    /\ ApplyRule(before, rules[1]) # before

\* C12 as stated: when a rule of the Document's scope matches with the
\* priority of the applied rule, the applied rule is a rule of that scope.
C12_ScopeRuleBeforeGlobalRule ==
    (rulePc = "classified" /\ applied # 0) =>
        ((\E i \in InScope : /\ rules[i].matches
                             /\ rules[i].priority = rules[applied].priority
                             /\ rules[i].tenant = document.tenant)
            => rules[applied].tenant = document.tenant)

\* C13 as stated: wherever the rules are applied, a document type and an
\* employee that were set are unchanged, and the status changes only from
\* UNASSIGNED.
C13_SetFieldsAreKept ==
    rulePc = "classified" =>
        /\ before.document_type # None =>
              document.document_type = before.document_type
        /\ before.employee # None => document.employee = before.employee
        /\ before.status # "UNASSIGNED" => document.status = before.status


\* ------------------------------------------------------------------------
\* Claims on the filing
\* ------------------------------------------------------------------------

\* the Documents whose filing went on to create an entry
Attempted == {d \in Docs : fileRes[d] \in {"filed", "failed"}}

\* C14 as stated: when the filings that ran concurrently are over (no
\* Document deleted, no manual entry), every Document whose filing went on
\* to create an entry is filed and the entry numbers of the file are exactly
\* 1..N for the N such Documents.
C14_ConcurrentFilingsNumbered ==
    (/\ \A d \in Docs : filePc[d] = "idle" /\ ~docs[d].deleted
     /\ \A e \in file_entries : e.created_by = None) =>
        /\ \A d \in Attempted : EntryExists(d)
        /\ {e.entry_number : e \in file_entries} = 1..Cardinality(Attempted)

\* C15 as stated: every entry that a step adds to the file has a number
\* above every number inserted in the file so far.
C15_NumbersNeverReused ==
    [][\A e \in file_entries' \ file_entries : e.entry_number > maxAssigned]_vars

\* C16 as stated: a Document has at most one entry in the personnel file.
C16_OneEntryPerDocument ==
    \A d \in Docs : Cardinality({e \in file_entries : e.document = d}) <= 1

\* C17 as stated: a Document with an entry created by the filing (not by the
\* manual add) has status ASSIGNED.
C17_FiledDocumentIsAssigned ==
    \A e \in file_entries :
        e.created_by = None => docs[e.document].status = "ASSIGNED"

\* C18 as stated: once a filing of a Document with employee and filing
\* category has run to its end, the employee's PersonnelFile exists with the
\* file number derived from the employee number and the Document has an
\* entry in it.
C18_FileableDocumentIsFiled ==
    \A d \in Docs :
        (/\ ~docs[d].deleted
         /\ docs[d].employee # None /\ docs[d].file_category # None
         /\ filePc[d] = "idle" /\ fileRes[d] # "none") =>
            /\ personnel_file = NewPersonnelFile(docs[d].employee)
            /\ EntryExists(d)


\* ------------------------------------------------------------------------
\* Claims on the retention
\* ------------------------------------------------------------------------

\* C19: for every entry of the file, the computed date is None when
\* retention_years is 0; for EXIT the closed date plus the years, None while
\* the file has no closed date; for CREATION the creation date plus the
\* years, closed or not; for DOCUMENT_DATE the document date plus the years,
\* the creation date plus the years without a document date. 10 years from
\* an exit on 2025-01-15 is 2035-01-15, 3 years from a creation on
\* 2024-06-01 is 2027-06-01.
C19_EntryRetentionDate ==
    \A e \in entries :
        LET date == calculate_entry_retention_date(e, pf)
            y == e.retention_years
        IN /\ y = 0 => date = NoDate
           /\ (y # 0 /\ e.retention_trigger = "EXIT") =>
                 /\ pf.closed_at = NoDate => date = NoDate
                 /\ pf.closed_at # NoDate =>
                       /\ date[1] = pf.closed_at[1] + y
                       /\ date[2] = pf.closed_at[2]
                 /\ (y = 10 /\ pf.closed_at = <<2025, 1, 15>>) =>
                       date = <<2035, 1, 15>>
           /\ (y # 0 /\ e.retention_trigger = "CREATION") =>
                 /\ date[1] = e.created_at[1] + y
                 /\ date[2] = e.created_at[2]
                 /\ (y = 3 /\ e.created_at = <<2024, 6, 1>>) => date = <<2027, 6, 1>>
           /\ (y # 0 /\ e.retention_trigger = "DOCUMENT_DATE") =>
                 /\ e.document_date # NoDate =>
                       date = <<e.document_date[1] + y, e.document_date[2],
                                e.document_date[3]>>
                 /\ e.document_date = NoDate =>
                       /\ date[1] = e.created_at[1] + y
                       /\ date[2] = e.created_at[2]

\* a closed file with an EXIT entry of 10 years and a CREATION entry of 3
\* years
C19_Witness ==
    /\ pf.closed_at = <<2025, 1, 15>>
    /\ \E e \in entries : e.retention_trigger = "EXIT" /\ e.retention_years = 10
    /\ \E e \in entries : /\ e.retention_trigger = "CREATION"
                          /\ e.retention_years = 3
                          /\ e.created_at = <<2024, 6, 1>>

\* C20 as stated: when an entry of the file has a computed date, the file's
\* retention_until is the latest of the computed dates of its entries.
C20_RetentionUntilIsMaximum ==
    EntryDates(pf, entries) # {} =>
        pf.retention_until = MaxDate(EntryDates(pf, entries))

\* ------------------------------------------------------------------------
\* Claims on the ScanJob and on the run's error handling
\* ------------------------------------------------------------------------
\* C21 as stated: a ScanJob row is finalized exactly once; once its status
\* is COMPLETED or FAILED no step changes it again (task retry, the admin's
\* reset of stale jobs, the late completion of the run).
C21_ScanJobFinalizedOnce ==
    [][\A t \in Tasks : scanJob[t] \in {"COMPLETED", "FAILED"} =>
           scanJob'[t] = scanJob[t]]_vars

\* C22 as stated: with a configuration error (no archive root, no encryption
\* key) the run ends FAILED before any candidate file is processed, and no
\* Document and no ledger row is created.
C22_ConfigErrorFatalAtStart ==
    config # "ok" =>
        /\ \A f \in Files : pcF[f] \in {"idle", "hash"} /\ resF[f] = "none"
        /\ documents = {}
        /\ ledger = {}
        /\ (run > 0 /\ phase = "idle") => scan_job.status = "FAILED"

\* the files whose processing ended in "except Exception" in this run
ErrorFiles == {f \in Files : resF[f] = "error"}

\* the run has returned or raised, and it got as far as the pool
PoolRunOver == run > 0 /\ phase = "idle" /\ scan_job.total_files > 0

\* C23: each failed file adds one to the error count and stops no other
\* file: when the run is over every candidate file has been processed to an
\* end and the run is COMPLETED with error_files the number of failed files,
\* unless the run as a whole failed; only a run that failed as a whole asks
\* for a retry, at most max_retries times; the step in which a file fails
\* changes neither the retry count nor the task's result.
C23_FileErrorsAreConfined ==
    /\ [](/\ counters.error_count = Cardinality(ErrorFiles)
          /\ PoolRunOver =>
                /\ \A f \in Files : pcF[f] \in {"idle", "done"}
                /\ \A f \in Files \ known_paths :
                      resF[f] \in {"processed", "skipped", "error"}
                /\ \/ /\ task_result = "success"
                      /\ scan_job.status = "COMPLETED"
                      /\ scan_job.error_files = Cardinality(ErrorFiles)
                   \/ /\ task_result \in {"Retry", "exc"}
                      /\ scan_job.status = "FAILED"
                      /\ run = faultRuns[Len(faultRuns)]
          /\ retries <= max_retries
          /\ task_result = "Retry" =>
                scan_job.status = "FAILED" /\ retries \in 1..max_retries)
    /\ [][(ErrorFiles' # ErrorFiles /\ run' = run) =>
              /\ retries' = retries
              /\ task_result' = task_result
              /\ scan_job' = scan_job
              /\ \A g \in Files : pcF[g] # "done" /\ pcF'[g] = "done" =>
                    g \in ErrorFiles' \ ErrorFiles]_vars

\* a run is over and COMPLETED in which one file failed and the other was
\* processed
C23_Witness ==
    /\ PoolRunOver
    /\ scan_job.status = "COMPLETED"
    /\ task_result = "success"
    /\ scan_job.error_files = 1
    /\ \E f \in Files : \E g \in Files \ {f} :
          resF[f] = "error" /\ resF[g] = "processed"

\* C29 as stated: when a run ends COMPLETED, processed_files + error_files +
\* (skipped_files minus the files skipped by the path cache) equals
\* total_files, also when bundles were split.
C29_CountersAccountForFiles ==
    (run > 0 /\ phase = "idle" /\ scan_job.status = "COMPLETED") =>
        scan_job.processed_files + scan_job.error_files
            + (scan_job.skipped_files - Cardinality(known_paths))
          = scan_job.total_files

\* ------------------------------------------------------------------------
\* Claims on the identification of employees
\* ------------------------------------------------------------------------
\* the forms of a raw id in the order of the lookup
Forms(id) ==
    IF IsDigit(id) THEN <<id, Lstrip0(id), Zfill(id, ZfillWidth)>> ELSE <<id>>

\* the employees of the scope whose number is the k-th form of the raw id
Hits(k) ==
    {e \in employees : /\ e.employee_id = Forms(raw_id)[k]
                       /\ scope # None => e.tenant = scope}

\* C25: the lookup returns an employee row or null, never an error; with a
\* scope given the employee is of that scope; when no query fails, the
\* result is the hit of the first form that has one (the exact number, then
\* the number without leading zeros, then the number padded to width 8),
\* and null when no form has a hit.
C25_ResolveOrder ==
    resolvePc = "returned" =>
        /\ resolved \in employees \cup {NoEmployee}
        /\ (scope # None /\ resolved # NoEmployee) => resolved.tenant = scope
        /\ raw_id = <<>> => resolved = NoEmployee
        /\ (db_fails = 0 /\ raw_id # <<>>) =>
              LET tried == {k \in 1..Len(Forms(raw_id)) : Hits(k) # {}} IN
              IF tried = {} THEN resolved = NoEmployee
              ELSE resolved \in Hits(CHOOSE k \in tried : \A j \in tried : k <= j)

\* the raw id 07 has no exact hit; the stripped form 7 and the padded form
\* 00000007 are two employees of the scope, and the stripped one is returned
C25_Witness ==
    /\ resolvePc = "returned"
    /\ db_fails = 0
    /\ raw_id = <<"0", "7">>
    /\ scope = "T1"
    /\ Hits(1) = {}
    /\ Hits(2) # {}
    /\ Hits(3) # {}
    /\ resolved.employee_id = <<"7">>

\* the file went through extract_employee_from_datamatrix
Extracted == candidate.suffix = ".pdf" /\ idPc \in {"create", "done"}
                 /\ Len(candidate.split_results) <= 1

\* C24 as stated: the extraction returns a result and does not raise; when
\* it failed or timed out the result has success false, or success true
\* with no codes, and the Document of the file is then created with status
\* REVIEW_NEEDED.
C24_FailedExtractionNeedsReview ==
    Extracted =>
        /\ candidate.first_page.kind \in {"slow", "corrupt"} =>
              \/ ~dm_result.success
              \/ dm_result.success /\ dm_result.codes = 0
        /\ (idPc = "done" /\ (~dm_result.success \/ dm_result.error = "Timeout")) =>
              /\ Len(new_docs) = 1
              /\ new_docs[1].status = "REVIEW_NEEDED"

\* the forms of a detected id that name an employee of the file's tenant
HitsOf(id, k) ==
    {e \in employees : e.employee_id = Forms(id)[k] /\ e.tenant = scope}

TriedOf(id) ==
    IF id = <<>> THEN {} ELSE {k \in 1..Len(Forms(id)) : HitsOf(id, k) # {}}

TowardArchived ==
    {<<"UNASSIGNED", "REVIEW_NEEDED">>, <<"UNASSIGNED", "ASSIGNED">>,
     <<"UNASSIGNED", "ARCHIVED">>, <<"REVIEW_NEEDED", "ARCHIVED">>,
     <<"ASSIGNED", "ARCHIVED">>, <<"REVIEW_NEEDED", "ASSIGNED">>}

\* C27 as stated: the status of a Document only moves toward ARCHIVED; no
\* application of the rules and no reclassification changes the status of
\* an ARCHIVED Document, and the one change away from ARCHIVED's direction
\* is REVIEW_NEEDED to ASSIGNED.
C27_StatusMovesTowardArchived ==
    [][/\ document.status = "ARCHIVED" => document'.status = "ARCHIVED"
       /\ document'.status # document.status =>
             <<document.status, document'.status>> \in TowardArchived]_vars

\* ------------------------------------------------------------------------
\* Claims on the threads of the pool
\* ------------------------------------------------------------------------
\* a thread of the pool is inside process_single_file
InFile(w) == poolPc[w] # "idle"

\* C28: no thread of the pool holds hashes_lock and counter_lock at the same
\* time, and the threads do not deadlock on them: while a thread is inside
\* process_single_file, some thread can take a step.
C28_MutexesNeverNested ==
    /\ \A w \in Workers : ~(hashes_lock = w /\ counter_lock = w)
    /\ (\E w \in Workers : InFile(w)) => ENABLED NextPool

\* one thread is inside "with hashes_lock" while another is inside "with
\* counter_lock"
C28_Witness ==
    \E w1, w2 \in Workers :
        /\ w1 # w2
        /\ hashes_lock = w1 /\ poolPc[w1] = "in_hash_add"
        /\ counter_lock = w2 /\ poolPc[w2] = "in_count_processed"

\* C30 as stated: while a thread of the pool decodes the barcodes of a
\* page, a timeout of its own is pending for it.
C30_DecodeBoundedByOwnTimeout ==
    \A w \in Workers : poolPc[w] \in DecodePcs => sigalrm = w

\* ------------------------------------------------------------------------
\* Claims on the directory walk
\* ------------------------------------------------------------------------
\* a name of exactly 8 digits
EightDigits(name) ==
    Len(name) = 8 /\ \A i \in 1..8 : name[i] \in PatternDigits

\* C31 as stated: every queued file lies below a folder whose name is
\* exactly 8 digits, has an extension of the allow-list and no OS artifact
\* name (case-insensitively); every 8-digit folder seen has a Tenant row
\* after the walk.
C31_OnlyScopeFilesQueued ==
    /\ \A q \in queued_paths :
          /\ EightDigits(q.tenant_code)
          /\ lower(q.file_path.name[2]) \in supported_extensions
          /\ NameLower(q.file_path.name) \notin skip_files
    /\ (walkPc = "done" /\ tenant_folder.is_dir
            /\ EightDigits(tenant_folder.name))
           => \E r \in tenant_rows : r.code = tenant_folder.name

\* ------------------------------------------------------------------------
\* Claims on the order of Documents, ledger and hash set
\* ------------------------------------------------------------------------
\* C32: a ledger row is written only when the Documents of its content
\* exist: the Document it names, or, for a split bundle, every segment
\* Document, the row naming no Document and the bundle itself not stored
\* as a Document; and every hash of the in-memory set has a ledger row.
C32_DocumentsThenLedgerThenHash ==
    /\ [](\A h \in known_hashes : InLedger(h))
    /\ [][\A l \in ledger' \ ledger :
             LET f == l.original_path IN
                 IF IsSplit(f)
                 THEN /\ l.document = NoDocument
                      /\ \A k \in 1..Len(split_results[f]) :
                             SplitDocument(f, k) \in documents
                      /\ WholeDocument(f) \notin documents
                 ELSE /\ l.document # NoDocument
                      /\ l.document \in documents]_vars

\* a split bundle has its ledger row and its hash is in the set
C32_Witness ==
    \E l \in ledger :
        /\ l.document = NoDocument
        /\ l.processed_at = run
        /\ phase = "pool"
        /\ l.sha256_hash \in known_hashes
        /\ Cardinality({d \in documents :
                            d.split_from = l.original_path}) > 1

\* C33 as stated: when the processing of a file has ended, with a result or
\* with an error, every Document created from the file has a ledger row
\* for the hash of the file's content.
C33_DocumentsAreInLedger ==
    \A f \in Files :
        pcF[f] = "done" =>
            \A d \in documents :
                d.original_path = f => InLedger(file_hash(f))

\* ------------------------------------------------------------------------
\* Claims on leaving the lock
\* ------------------------------------------------------------------------
\* C34 as stated: leaving the with-block of distributed_lock raises no error
\* of the lock's own: what the caller of the task sees is the result or the
\* exception of the block's body.
C34_ExitRaisesNothingOfItsOwn ==
    \A t \in Tasks : pc[t] = "done" => outcome[t] = pending[t]

\* C35: the lock is never held forever: a stored key is removed, by the
\* holder's release when its block is left, or by its expiry when the
\* release fails or the holder stops; a later attempt finds no key.
C35_LockNeverHeldForever ==
    (lockKey # NoKey) ~> (lockKey = NoKey)

\* the holder has left its block, its release failed and its key is still
\* stored
C35_Witness ==
    \E t \in Tasks :
        /\ pc[t] = "done"
        /\ acquired[t] = "True"
        /\ lockKey = lock_value(t)

\* C36 as stated: a run that created a ScanJob finalizes it on every path:
\* when _run_sage_scan has returned or raised, its ScanJob is COMPLETED or
\* FAILED.
C36_ScanJobFinalized ==
    \A t \in Tasks :
        (pc[t] \in {"finally", "done"} /\ scanJob[t] # "none") =>
            scanJob[t] \in {"COMPLETED", "FAILED"}

\* ------------------------------------------------------------------------
\* Claims on status, employee and scope under the rules
\* ------------------------------------------------------------------------
\* the link between status and employee
Linked(doc) ==
    /\ doc.status = "ASSIGNED" => doc.employee # None
    /\ doc.status = "REVIEW_NEEDED" => doc.employee = None

\* C37 as stated: an ASSIGNED Document has an employee and a REVIEW_NEEDED
\* Document of the scan has none, and no application of the rules breaks
\* that link.
C37_StatusAndEmployeeLinked ==
    [][Linked(document) => Linked(document')]_vars

\* C38 as stated: the rules evaluated on a Document are global or of the
\* Document's own tenant, also when no tenant is passed.
C38_NoRuleOfAnotherTenant ==
    rulePc = "classified" =>
        \A i \in evaluated : rules[i].tenant \in {None, document.tenant}

\* ------------------------------------------------------------------------
\* Claims on the segment list of split_pdf_by_datamatrix
\* ------------------------------------------------------------------------
\* the number of times the decoded id changes from one page with an id to
\* the next page with an id
RECURSIVE IdChanges(_, _)
IdChanges(ids, last) ==
    IF ids = <<>> THEN 0
    ELSE IF Head(ids) = NoId THEN IdChanges(Tail(ids), last)
    ELSE (IF last # NoId /\ Head(ids) # last THEN 1 ELSE 0)
             + IdChanges(Tail(ids), Head(ids))

\* C39: in the segment list of split_pdf_by_datamatrix only the first
\* segment can be without id and adjacent segments have different ids;
\* after the merge of the leading segment every segment that is written has
\* an id, and when no write fails the number of split files is the number
\* of id changes plus one.
C39_SegmentListShape ==
    splitter = "split_pdf_by_datamatrix" =>
        /\ segPc = "pages" =>
              /\ \A i \in 2..Len(SegmentsSoFar) :
                    SegmentsSoFar[i].employee_id # NoId
              /\ \A i \in 1..(Len(SegmentsSoFar) - 1) :
                    SegmentsSoFar[i].employee_id
                        # SegmentsSoFar[i + 1].employee_id
        /\ segPc = "write" =>
              \A i \in 1..Len(segments) : segments[i].employee_id # NoId
        /\ \A i \in 1..Len(result) : result[i].employee_id # NoId
        /\ (segPc = "done" /\ ~writeFailed /\ IdChanges(segIds, NoId) > 0) =>
              Len(result) = IdChanges(segIds, NoId) + 1

\* a PDF that starts with pages without id and whose id changes was split
\* with every file written
C39_Witness ==
    /\ splitter = "split_pdf_by_datamatrix"
    /\ segPc = "done"
    /\ ~writeFailed
    /\ segIds[1] = NoId
    /\ IdChanges(segIds, NoId) = 2
    /\ Len(result) = 3

=============================================================================
